---- MODULE Spec2Model ----
(***************************************************************************)
(* Verification model of the orchestrate automation engine                 *)
(* (tools/automation_engine.py) and of the agent supervisor                *)
(* (tools/claude_assistant.py).                                            *)
(*                                                                         *)
(* The module holds several state machines over disjoint groups of         *)
(* variables, each with its own specification:                             *)
(*   SpecLock    FileLock.acquire / FileLock.release, step by step         *)
(*   SpecPQ      process_queue_entry_with_lock run by two engine processes *)
(*               and retry_failed_entries, on top of the FileLock steps    *)
(*   SpecEngine  engine_loop, process_queue_entry_with_lock, retry_failed  *)
(*               and retry_failed_entries over one entry file              *)
(*   SpecSup     execute_queue, assign_task, batch_assign_tasks,           *)
(*               kill_agents and the worker processes                      *)
(*   SpecClaims, SpecQueue   the commands on the task queue file, run by   *)
(*               concurrent processes                                      *)
(*   SpecTasks, SpecResults  the same commands run one after the other     *)
(*   SpecStamps  the timestamps of one engine queue entry                  *)
(*   SpecAction  run_action and run_workflow_steps for one fired rule      *)
(*   SpecLoop    the control flow of engine_loop under faults              *)
(*   SpecInterval  the interval rules of engine_loop                       *)
(*   SpecRetry   the retry schedule of retry_failed_entries on one entry   *)
(*   SpecSpawn   execute_queue, assign_task and batch_assign_tasks run one *)
(*               after the other, with the nesting sentinel                *)
(*   SpecExecTime  the timestamps of a task and the execution time         *)
(*               log_task_completion reports                               *)
(*   SpecResolve  resolve_context_values on inputs drawn from a set         *)
(*   SpecRules   add_rule, update_rule, delete_rule and get_rule            *)
(*   SpecEngineLive  the engine of SpecEngine, polling for ever             *)
(*   SpecDispatch  which rules a poll of engine_loop and dispatch_event run *)
(*   SpecLoopLive  the engine of SpecLoop, kept running                     *)
(* A specification leaves the variables of the other machines unchanged.   *)
(***************************************************************************)
EXTENDS Integers, Sequences, FiniteSets, TLC

VARIABLES
    \* ---- FileLock (SpecLock, SpecPQ) ----
    lkPath,      \* inode linked at "<filepath>.lock", 0 when the file is absent
    lkFlock,     \* inode -> process holding flock(LOCK_EX) on it, or "none"
    lkFd,        \* process -> inode of its open self.lock_file, 0 when None
    lkPc         \* process -> position inside acquire()/release()

VARIABLES
    \* ---- process_queue_entry_with_lock under FileLock (SpecPQ) ----
    pqStatus,    \* status of the one entry in the entry file
    pqPc,        \* process -> position in its command
    pqLocal,     \* process -> status in the data it read with read_json
    pqResult     \* engine process -> status of the result run_action returned

VARIABLES
    \* ---- engine_loop and the retry commands (SpecEngine) ----
    clock,                   \* datetime.now(), in units of retry_delay_base minutes
    entries,                 \* the entry file: key -> entry
    new_entries,             \* engine_loop: new_data['entries'] read at the top of the file loop
    state_entries,           \* engine_loop: state[file_path]['entries'] (old_entries)
    processed_this_session,  \* engine_loop: the session dedup set, keys of this file
    other_session_keys,      \* engine_loop: how many keys of other files the set holds
    event_types,             \* EVENT_TYPES_FILE: the 'test' of entry_added and of entry_updated
    engPc,                   \* engine_loop: position in the iteration
    engRule,                 \* engine_loop: index in the rule list of the running phase
    engIdx,                  \* engine_loop: index of the key in new_entries.items()
    engResult,               \* process_queue_entry_with_lock: result of run_action
    \* history (not program state)
    firedSession,            \* dedup tuples fired since engine_loop started
    firedSinceClear,         \* dedup tuples fired since the set was last empty
    dupSession,              \* a tuple fired twice since engine_loop started
    dupSinceClear,           \* a tuple fired twice with no clear in between
    actStart,                \* trigger and persisted status at the latest action start
    actOwn,                  \* the running action rewrote the entry's status itself
    actEnd,                  \* status (and actOwn) when the latest handling ended
    rfeMoves,                \* key -> moves back to queued made by retry_failed_entries
    rfMoves                  \* key -> moves back to queued made by retry_failed

VARIABLES
    \* ---- the agent supervisor (SpecSup) ----
    supNow,          \* datetime.now(), in minutes
    lockfile,        \* data/execute_queue.lock: NoLock or [created_at, pids]
    tasks,           \* data/claude_task_queue.json: task_id -> NoTask or its agent_id
    workers,         \* pid -> "unborn", "alive" or "dead"
    supPc,           \* command process -> position inside execute_queue
    parallel,        \* execute_queue: the local `parallel`, after the clamp
    supResult,       \* the status the latest return of execute_queue carried
    \* history (not program state)
    lockBuckets,     \* len(agent_tasks) of the call that wrote the lockfile
    seenStale,       \* the latest return of execute_queue came with a lockfile
                     \* older than 30 minutes in place
    reclaiming,      \* the processes whose running execute_queue removed a lockfile
                     \* older than 30 minutes that listed only dead pids
    lockReclaimed    \* the lockfile in place was written by such a call

VARIABLES
    \* ---- the task queue file under concurrent commands (SpecClaims, SpecQueue) ----
    queue,           \* data/claude_task_queue.json: queue["tasks"], task_id -> task
    qPc,             \* command process -> "idle", or "loaded" after json.load(f)
    qCmd,            \* command process -> the command it runs and its params
    qLocal,          \* command process -> the local `queue` it loaded
    qCalls,          \* command process -> commands it has started
    \* history (not program state)
    claims,          \* task_id -> process_queue calls that returned the task
    expected,        \* the queue if the commands had run one after the other,
                     \* in the order of their returns
    \* ---- the task commands run one after the other (SpecTasks, SpecResults) ----
    results,         \* data/claude_task_results.json: results["results"]
    tNow,            \* datetime.now()
    pending_tasks,   \* history: pending_tasks of the last process_queue call
    \* ---- the timestamps of one engine queue entry (SpecStamps) ----
    stEntry,         \* data['entries'][key] of the queue file
    stWall,          \* datetime.now()
    stEngPc,         \* the engine: "idle", or "action" inside run_action
    stRfePc,         \* retry_failed_entries: "idle", or "lock" before its FileLock
    stRfeNow         \* retry_failed_entries: its local `now`

VARIABLES
    \* ---- run_action and run_workflow_steps (SpecAction) ----
    aPc,             \* "idle", "leaf" or "steps" inside run_action, "done" after it
    aRule,           \* the rule that fired
    aTrig,           \* its trigger type, which decides the call site of run_action
    aTimeout,        \* run_action: action_timeout
    aStep,           \* run_workflow_steps: i, from 1
    aItem,           \* foreach: idx, from 1
    aSub,            \* foreach: position in sub_steps
    previous_output, \* run_workflow_steps: previous_output
    item_prev,       \* foreach: item_context['prev']
    foreach_results, \* foreach: foreach_results
    aResult,         \* what run_action returned
    aLogged,         \* the results of the ExecutionHistory records the action appended
    \* history (not program state)
    aCalls,          \* the subprocess.run calls made, with prev, timeout and output
    aOutputs         \* the outputs the steps of the workflow ended with

VARIABLES
    \* ---- the control flow of engine_loop under faults (SpecLoop) ----
    lpPc,            \* engine_loop: position in the iteration, "crashed" once an
                     \* exception has left the function
    lpPolls,         \* iterations completed
    lpFileOk,        \* the entry file parses as JSON
    lpLockFree,      \* FileLock(file_path) can be acquired within its timeout
    lpStatus,        \* status of the entry in the entry file
    lpResult,        \* process_queue_entry_with_lock: result of run_action
    lpFaults         \* history: the kinds of fault met so far

VARIABLES
    \* ---- the interval rules of engine_loop (SpecInterval) ----
    ivNow,                \* datetime.now(), in minutes
    interval_executions,  \* state['interval_executions']: rule_key -> time
    ivEnabled,            \* rule_key -> rule.get('enabled', True)
    \* history (not program state)
    ivPolled,             \* the latest poll of an enabled rule: rule, fired, time
    ivFired               \* rule_key -> the times at which the rule fired

VARIABLES
    \* ---- the retry schedule of one entry (SpecRetry) ----
    rtNow,           \* datetime.now(), in minutes
    rtEntry,         \* data['entries'][key]
    \* history (not program state)
    rtRetriedAt,     \* the times of the calls that set the entry back to queued
    rtSkippedAt      \* the retry counts at which a call left the entry alone

VARIABLES
    \* ---- the supervisor's commands run one after the other (SpecSpawn) ----
    spWorkerEnv,     \* pid -> the CLAUDECODE of the environment the worker got
    \* history (not program state)
    spCall           \* the latest command: its parallel argument, the CLAUDECODE
                     \* of its process and the workers it spawned

VARIABLES
    \* ---- the timestamps of one supervisor task (SpecExecTime) ----
    xtNow,           \* datetime.now(), in seconds, from 1 on
    xtTask,          \* queue["tasks"][task_id], or NoTimedTask
    xtResult         \* results["results"][task_id], or NoTimedResult

VARIABLES
    \* ---- one call of resolve_context_values (SpecResolve) ----
    rvParams,        \* the argument params
    rvContext,       \* the argument context
    rvResult         \* NotCalled, or what the call returned or that it raised

VARIABLES
    \* ---- the commands on the rules file (SpecRules) ----
    rlFile,          \* data/automation_rules.json: whether it exists, its rules
    \* history (not program state)
    rlLast           \* the latest command: its arguments, what it returned, and
                     \* the command before it

VARIABLES
    \* ---- which rules run (SpecDispatch) ----
    dpEnabled,       \* rule_key -> rule.get('enabled', True) in the rules file
    dpEntry,         \* the status of the entry in the entry file, or "absent"
    dpSession,       \* processed_this_session
    \* history (not program state)
    dpRun            \* the latest poll or dispatch_event and the rules whose
                     \* action it ran

lockVars == <<lkPath, lkFlock, lkFd, lkPc>>
pqVars == <<pqStatus, pqPc, pqLocal, pqResult>>
engVars == <<clock, entries, new_entries, state_entries, processed_this_session,
             other_session_keys, event_types, engPc, engRule, engIdx, engResult>>
histVars == <<firedSession, firedSinceClear, dupSession, dupSinceClear, actStart,
              actOwn, actEnd, rfeMoves, rfMoves>>

supVars == <<supNow, lockfile, tasks, workers, supPc, parallel, supResult,
             lockBuckets, seenStale, reclaiming, lockReclaimed>>

queueVars == <<queue, qPc, qCmd, qLocal, qCalls, claims, expected, results, tNow, pending_tasks>>

stampVars == <<stEntry, stWall, stEngPc, stRfePc, stRfeNow>>

actVars == <<aPc, aRule, aTrig, aTimeout, aStep, aItem, aSub, previous_output, item_prev,
             foreach_results, aResult, aLogged, aCalls, aOutputs>>
\* The variables of the machines added after the first seven.
loopVars == <<lpPc, lpPolls, lpFileOk, lpLockFree, lpStatus, lpResult, lpFaults>>
ivVars == <<ivNow, interval_executions, ivEnabled, ivPolled, ivFired>>
rtVars == <<rtNow, rtEntry, rtRetriedAt, rtSkippedAt>>
spVars == <<spWorkerEnv, spCall>>
prevMore == <<actVars, loopVars, ivVars, rtVars, spVars>>
\* The variables of the machines added last.
xtVars == <<xtNow, xtTask, xtResult>>
rvVars == <<rvParams, rvContext, rvResult>>
rlVars == <<rlFile, rlLast>>
dpVars == <<dpEnabled, dpEntry, dpSession, dpRun>>
lateVars == <<xtVars, rvVars, rlVars, dpVars>>
moreVars == <<prevMore, lateVars>>

vars == <<lockVars, pqVars, engVars, histVars, supVars, queueVars, stampVars, moreVars>>

\* What each machine leaves alone.
frameLock == <<pqVars, engVars, histVars, supVars, queueVars, stampVars, moreVars>>
framePQ == <<engVars, histVars, supVars, queueVars, stampVars, moreVars>>
frameEng == <<lockVars, pqVars, supVars, queueVars, stampVars, moreVars>>
frameSup == <<lockVars, pqVars, engVars, histVars, queueVars, stampVars, moreVars>>
frameQueue == <<lockVars, pqVars, engVars, histVars, supVars, stampVars, moreVars>>
frameStamp == <<lockVars, pqVars, engVars, histVars, supVars, queueVars, moreVars>>
oldVars == <<lockVars, pqVars, engVars, histVars, supVars, queueVars, stampVars>>
frameAct == <<oldVars, loopVars, ivVars, rtVars, spVars, lateVars>>
frameLoop == <<oldVars, actVars, ivVars, rtVars, spVars, lateVars>>
frameIv == <<oldVars, actVars, loopVars, rtVars, spVars, lateVars>>
frameRetry == <<oldVars, actVars, loopVars, ivVars, spVars, lateVars>>
frameSpawn == <<lockVars, pqVars, engVars, histVars, queueVars, stampVars, actVars, loopVars,
                ivVars, rtVars, supPc, parallel, lockBuckets, seenStale, reclaiming,
                lockReclaimed, lateVars>>
frameXt == <<oldVars, prevMore, rvVars, rlVars, dpVars>>
frameRv == <<oldVars, prevMore, xtVars, rlVars, dpVars>>
frameRl == <<oldVars, prevMore, xtVars, rvVars, dpVars>>
frameDp == <<oldVars, prevMore, xtVars, rvVars, rlVars>>

(***************************************************************************)
(* FileLock                                                                *)
(***************************************************************************)

LockProcs == {"p1", "p2", "p3"}

\* Inodes the model can tell apart: one per open descriptor plus the linked one.
Inodes == 1 .. (Cardinality(LockProcs) + 1)

InodeInUse(i) == lkPath = i \/ \E p \in LockProcs : lkFd[p] = i

\* The inode a creating open() gets: any inode that is neither linked nor open.
FreshInode == CHOOSE i \in Inodes : ~InodeInUse(i) /\ \A j \in Inodes : ~InodeInUse(j) => i <= j

LockInit ==
    /\ lkPath = 0
    /\ lkFlock = [i \in Inodes |-> "none"]
    /\ lkFd = [p \in LockProcs |-> 0]
    /\ lkPc = [p \in LockProcs |-> "idle"]

\* acquire(): entering the while loop (time.time() - start_time < timeout holds
\* on the first pass).
Acquire_enter(p) ==
    /\ lkPc[p] = "idle"
    /\ lkPc' = [lkPc EXCEPT ![p] = "spin0"]
    /\ UNCHANGED <<lkPath, lkFlock, lkFd>>

\* self.lock_file = open(lock_path, 'w'): opens the linked inode, creating the
\* file when it is absent.
Acquire_open(p) ==
    /\ lkPc[p] \in {"spin0", "spin"}
    /\ LET i == IF lkPath = 0 THEN FreshInode ELSE lkPath
       IN  /\ lkPath' = i
           /\ lkFd' = [lkFd EXCEPT ![p] = i]
    /\ lkPc' = [lkPc EXCEPT ![p] = "opened"]
    /\ UNCHANGED lkFlock

\* fcntl.flock(fd, LOCK_EX | LOCK_NB) succeeds: self.acquired = True.
Acquire_flock(p) ==
    /\ lkPc[p] = "opened"
    /\ lkFlock[lkFd[p]] = "none"
    /\ lkFlock' = [lkFlock EXCEPT ![lkFd[p]] = p]
    /\ lkPc' = [lkPc EXCEPT ![p] = "held"]
    /\ UNCHANGED <<lkPath, lkFd>>

\* flock raises BlockingIOError: close the file, sleep 0.1 s, loop again.
Acquire_busy(p) ==
    /\ lkPc[p] = "opened"
    /\ lkFlock[lkFd[p]] # "none"
    /\ lkFd' = [lkFd EXCEPT ![p] = 0]
    /\ lkPc' = [lkPc EXCEPT ![p] = "spin"]
    /\ UNCHANGED <<lkPath, lkFlock>>

\* The loop condition fails after at least one failed pass: TimeoutError.
Acquire_timeout(p) ==
    /\ lkPc[p] = "spin"
    /\ lkPc' = [lkPc EXCEPT ![p] = "idle"]
    /\ UNCHANGED <<lkPath, lkFlock, lkFd>>

\* release(): flock(LOCK_UN), close, self.lock_file = None.
Release_unlock(p) ==
    /\ lkPc[p] = "held"
    /\ lkFlock' = [lkFlock EXCEPT ![lkFd[p]] = "none"]
    /\ lkFd' = [lkFd EXCEPT ![p] = 0]
    /\ lkPc' = [lkPc EXCEPT ![p] = "unlocked"]
    /\ UNCHANGED lkPath

\* release(): os.path.exists(lock_path).
Release_exists(p) ==
    /\ lkPc[p] = "unlocked"
    /\ lkPc' = [lkPc EXCEPT ![p] = IF lkPath # 0 THEN "removing" ELSE "idle"]
    /\ UNCHANGED <<lkPath, lkFlock, lkFd>>

\* release(): os.remove(lock_path) unlinks whatever inode is linked there now
\* (a FileNotFoundError is swallowed by the except clause).
Release_remove(p) ==
    /\ lkPc[p] = "removing"
    /\ lkPath' = 0
    /\ lkPc' = [lkPc EXCEPT ![p] = "idle"]
    /\ UNCHANGED <<lkFlock, lkFd>>

EngIdle ==
    /\ clock = 0
    /\ entries = <<>>
    /\ new_entries = <<>>
    /\ state_entries = <<>>
    /\ processed_this_session = {}
    /\ other_session_keys = 0
    /\ event_types = <<>>
    /\ engPc = "sleep"
    /\ engRule = 1
    /\ engIdx = 1
    /\ engResult = "none"
    /\ firedSession = {}
    /\ firedSinceClear = {}
    /\ dupSession = FALSE
    /\ dupSinceClear = FALSE
    /\ actStart = <<>>
    /\ actOwn = FALSE
    /\ actEnd = <<>>
    /\ rfeMoves = <<>>
    /\ rfMoves = <<>>

SupIdle ==
    /\ supNow = 0
    /\ lockfile = <<>>
    /\ tasks = <<>>
    /\ workers = <<>>
    /\ supPc = <<>>
    /\ parallel = <<>>
    /\ supResult = <<>>
    /\ lockBuckets = 0
    /\ seenStale = FALSE
    /\ reclaiming = {}
    /\ lockReclaimed = FALSE

QueueIdle ==
    /\ queue = <<>>
    /\ qPc = <<>>
    /\ qCmd = <<>>
    /\ qLocal = <<>>
    /\ qCalls = <<>>
    /\ claims = <<>>
    /\ expected = <<>>
    /\ results = <<>>
    /\ tNow = 0
    /\ pending_tasks = {}

StampIdle ==
    /\ stEntry = <<>>
    /\ stWall = 0
    /\ stEngPc = "idle"
    /\ stRfePc = "idle"
    /\ stRfeNow = 0

ActIdle ==
    /\ aPc = "off"
    /\ aRule = <<>>
    /\ aTrig = "none"
    /\ aTimeout = 0
    /\ aStep = 1
    /\ aItem = 1
    /\ aSub = 1
    /\ previous_output = <<>>
    /\ item_prev = <<>>
    /\ foreach_results = <<>>
    /\ aResult = <<>>
    /\ aLogged = <<>>
    /\ aCalls = <<>>
    /\ aOutputs = <<>>

LoopIdle ==
    /\ lpPc = "off"
    /\ lpPolls = 0
    /\ lpFileOk = TRUE
    /\ lpLockFree = TRUE
    /\ lpStatus = "none"
    /\ lpResult = "none"
    /\ lpFaults = {}

IvIdle ==
    /\ ivNow = 0
    /\ interval_executions = <<>>
    /\ ivEnabled = <<>>
    /\ ivPolled = <<>>
    /\ ivFired = <<>>

RetryIdle ==
    /\ rtNow = 0
    /\ rtEntry = <<>>
    /\ rtRetriedAt = <<>>
    /\ rtSkippedAt = {}

SpawnIdle ==
    /\ spWorkerEnv = <<>>
    /\ spCall = <<>>

XtIdle ==
    /\ xtNow = 1
    /\ xtTask = <<>>
    /\ xtResult = <<>>

RvIdle ==
    /\ rvParams = <<>>
    /\ rvContext = <<>>
    /\ rvResult = <<>>

RlIdle ==
    /\ rlFile = <<>>
    /\ rlLast = <<>>

DpIdle ==
    /\ dpEnabled = <<>>
    /\ dpEntry = "absent"
    /\ dpSession = {}
    /\ dpRun = <<>>

LateIdle == XtIdle /\ RvIdle /\ RlIdle /\ DpIdle

MoreIdle == ActIdle /\ LoopIdle /\ IvIdle /\ RetryIdle /\ SpawnIdle /\ LateIdle

PQIdle ==
    /\ pqStatus = "queued"
    /\ pqPc = [p \in LockProcs |-> "start"]
    /\ pqLocal = [p \in LockProcs |-> "none"]
    /\ pqResult = [p \in LockProcs |-> "none"]

LockNext ==
    \E p \in LockProcs :
        \/ Acquire_enter(p) /\ UNCHANGED frameLock
        \/ Acquire_open(p) /\ UNCHANGED frameLock
        \/ Acquire_flock(p) /\ UNCHANGED frameLock
        \/ Acquire_busy(p) /\ UNCHANGED frameLock
        \/ Acquire_timeout(p) /\ UNCHANGED frameLock
        \/ Release_unlock(p) /\ UNCHANGED frameLock
        \/ Release_exists(p) /\ UNCHANGED frameLock
        \/ Release_remove(p) /\ UNCHANGED frameLock

InitLock == LockInit /\ PQIdle /\ EngIdle /\ SupIdle /\ QueueIdle /\ StampIdle /\ MoreIdle

SpecLock == InitLock /\ [][LockNext]_vars

\* A process holds the lock from the return of acquire() to its call of release().
Holds(p) == lkPc[p] = "held"

\* C1: FileLock gives mutual exclusion: at no time do two processes both hold
\* the lock on the same path (acquired and not yet released).
C1_MutualExclusion == \A p, q \in LockProcs : (Holds(p) /\ Holds(q)) => p = q

(***************************************************************************)
(* process_queue_entry_with_lock by two engine processes, retry_failed by  *)
(* a third, each `with FileLock(file_path)` running the FileLock steps     *)
(***************************************************************************)

\* Each process runs its command once: p1 and p2 one call of
\* process_queue_entry_with_lock for the entry, p3 one call of retry_failed.
Engines == {"p1", "p2"}
RetryProc == "p3"

SkipStatuses == {"processing", "processed", "failed", "timeout_failed"}

PQInit ==
    /\ pqStatus \in {"queued", "failed"}
    /\ pqPc = [p \in LockProcs |-> "start"]
    /\ pqLocal = [p \in LockProcs |-> "none"]
    /\ pqResult = [p \in LockProcs |-> "none"]

\* The FileLock steps that need no decision of the caller.
PQ_lock_step(p) ==
    /\ \/ Acquire_open(p)
       \/ Acquire_flock(p)
       \/ Acquire_busy(p)
       \/ Release_exists(p)
       \/ Release_remove(p)
    /\ UNCHANGED pqVars
    /\ UNCHANGED framePQ

\* `with FileLock(file_path):` at the top of process_queue_entry_with_lock.
PQ_call(p) ==
    /\ p \in Engines
    /\ pqPc[p] = "start"
    /\ Acquire_enter(p)
    /\ pqPc' = [pqPc EXCEPT ![p] = "read1"]
    /\ UNCHANGED <<pqStatus, pqLocal, pqResult>>
    /\ UNCHANGED framePQ

\* data = read_json(file_path); current_status = data['entries'][key]['status']
PQ_read1(p) ==
    /\ p \in Engines
    /\ pqPc[p] = "read1"
    /\ Holds(p)
    /\ pqLocal' = [pqLocal EXCEPT ![p] = pqStatus]
    /\ pqPc' = [pqPc EXCEPT ![p] = "check1"]
    /\ UNCHANGED <<lockVars, pqStatus, pqResult>>
    /\ UNCHANGED framePQ

\* An entry already processing/processed/failed/timeout_failed: return False
\* (leaving the with block releases the lock).
PQ_skip(p) ==
    /\ p \in Engines
    /\ pqPc[p] = "check1"
    /\ pqLocal[p] \in SkipStatuses
    /\ Release_unlock(p)
    /\ pqPc' = [pqPc EXCEPT ![p] = "returned"]
    /\ UNCHANGED <<pqStatus, pqLocal, pqResult>>
    /\ UNCHANGED framePQ

\* Mark as processing: data[...]['status'] = 'processing'; write_json(...)
PQ_mark(p) ==
    /\ p \in Engines
    /\ pqPc[p] = "check1"
    /\ pqLocal[p] \notin SkipStatuses
    /\ pqStatus' = "processing"
    /\ pqPc' = [pqPc EXCEPT ![p] = "exit1"]
    /\ UNCHANGED <<lockVars, pqLocal, pqResult>>
    /\ UNCHANGED framePQ

\* End of the first with block.
PQ_exit1(p) ==
    /\ p \in Engines
    /\ pqPc[p] = "exit1"
    /\ Release_unlock(p)
    /\ pqPc' = [pqPc EXCEPT ![p] = "action"]
    /\ UNCHANGED <<pqStatus, pqLocal, pqResult>>
    /\ UNCHANGED framePQ

\* result = run_action(rule["action"], context, timeout=rule_timeout), then the
\* FileLock of atomic_update_entry_status (timeout, error) or of the success
\* check.
PQ_run_action(p) ==
    /\ p \in Engines
    /\ pqPc[p] = "action"
    /\ \E r \in {"success", "error", "timeout_failed"} :
         pqResult' = [pqResult EXCEPT ![p] = r]
    /\ Acquire_enter(p)
    /\ pqPc' = [pqPc EXCEPT ![p] = "read2"]
    /\ UNCHANGED <<pqStatus, pqLocal>>
    /\ UNCHANGED framePQ

\* read_json under the second lock.
PQ_read2(p) ==
    /\ p \in Engines
    /\ pqPc[p] \in {"read2", "read3"}
    /\ Holds(p)
    /\ pqLocal' = [pqLocal EXCEPT ![p] = pqStatus]
    /\ pqPc' = [pqPc EXCEPT ![p] = IF pqPc[p] = "read2" THEN "write2" ELSE "write3"]
    /\ UNCHANGED <<lockVars, pqStatus, pqResult>>
    /\ UNCHANGED framePQ

\* The entry's status in the file after the outcome step of a call whose
\* run_action returned `result` and whose read_json saw `read`, the file holding
\* `current`: timeout_failed or failed through atomic_update_entry_status;
\* processed when the status read is still processing; no write otherwise.
OutcomeStatus(result, read, current) ==
    CASE result = "timeout_failed" -> "timeout_failed"
      [] result = "error" -> "failed"
      [] OTHER -> IF read = "processing" THEN "processed" ELSE current

\* atomic_update_entry_status(...) / the success branch: write, leave the with.
PQ_write2(p) ==
    /\ p \in Engines
    /\ pqPc[p] \in {"write2", "write3"}
    /\ pqStatus' = IF pqPc[p] = "write3" THEN "failed"
                   ELSE OutcomeStatus(pqResult[p], pqLocal[p], pqStatus)
    /\ Release_unlock(p)
    /\ pqPc' = [pqPc EXCEPT ![p] = "returned"]
    /\ UNCHANGED <<pqLocal, pqResult>>
    /\ UNCHANGED framePQ

\* FileLock.acquire raises TimeoutError: out of the function from the first
\* with block; into `except Exception` (atomic_update_entry_status(..., 'failed'))
\* from the try block; out of the function from the except clause.
PQ_lock_timeout(p) ==
    /\ p \in Engines
    /\ Acquire_timeout(p)
    /\ pqPc' = [pqPc EXCEPT ![p] =
                  IF pqPc[p] = "read2" THEN "except" ELSE "raised"]
    /\ UNCHANGED <<pqStatus, pqLocal, pqResult>>
    /\ UNCHANGED framePQ

\* except Exception as e: atomic_update_entry_status(file_path, key, 'failed', ...)
PQ_except(p) ==
    /\ p \in Engines
    /\ pqPc[p] = "except"
    /\ Acquire_enter(p)
    /\ pqPc' = [pqPc EXCEPT ![p] = "read3"]
    /\ UNCHANGED <<pqStatus, pqLocal, pqResult>>
    /\ UNCHANGED framePQ

\* retry_failed in another process: with FileLock(file_path): ...
RF_call(p) ==
    /\ p = RetryProc
    /\ pqPc[p] = "start"
    /\ Acquire_enter(p)
    /\ pqPc' = [pqPc EXCEPT ![p] = "read1"]
    /\ UNCHANGED <<pqStatus, pqLocal, pqResult>>
    /\ UNCHANGED framePQ

\* retry_failed: data = read_json(file_path)
RF_read(p) ==
    /\ p = RetryProc
    /\ pqPc[p] = "read1"
    /\ Holds(p)
    /\ pqLocal' = [pqLocal EXCEPT ![p] = pqStatus]
    /\ pqPc' = [pqPc EXCEPT ![p] = "write1"]
    /\ UNCHANGED <<lockVars, pqStatus, pqResult>>
    /\ UNCHANGED framePQ

\* retry_failed: failed -> queued in the data read; write_json(file_path, data)
\* writes the whole file back; the with block ends.
RF_write(p) ==
    /\ p = RetryProc
    /\ pqPc[p] = "write1"
    /\ pqStatus' = IF pqLocal[p] = "failed" THEN "queued" ELSE pqLocal[p]
    /\ Release_unlock(p)
    /\ pqPc' = [pqPc EXCEPT ![p] = "returned"]
    /\ UNCHANGED <<pqLocal, pqResult>>
    /\ UNCHANGED framePQ

\* retry_failed: FileLock.acquire raises TimeoutError.
RF_lock_timeout(p) ==
    /\ p = RetryProc
    /\ Acquire_timeout(p)
    /\ pqPc' = [pqPc EXCEPT ![p] = "raised"]
    /\ UNCHANGED <<pqStatus, pqLocal, pqResult>>
    /\ UNCHANGED framePQ

PQNext ==
    \E p \in LockProcs :
        \/ PQ_lock_step(p)
        \/ PQ_call(p)
        \/ PQ_read1(p)
        \/ PQ_skip(p)
        \/ PQ_mark(p)
        \/ PQ_exit1(p)
        \/ PQ_run_action(p)
        \/ PQ_read2(p)
        \/ PQ_write2(p)
        \/ PQ_lock_timeout(p)
        \/ PQ_except(p)
        \/ RF_call(p)
        \/ RF_read(p)
        \/ RF_write(p)
        \/ RF_lock_timeout(p)

InitPQ == LockInit /\ PQInit /\ EngIdle /\ SupIdle /\ QueueIdle /\ StampIdle /\ MoreIdle

SpecPQ == InitPQ /\ [][PQNext]_vars

\* An engine process that has marked the entry processing and has not yet
\* written the outcome of the action.
Processing(p) == pqPc[p] \in {"exit1", "action", "read2", "write2", "except", "read3", "write3"}

\* C2: of two engine processes calling process_queue_entry_with_lock at the
\* same time for the same queued entry, at most one marks it processing and
\* runs the action: never are both between their mark and their outcome.
C2_AtMostOneProcesses == \A p, q \in Engines : (Processing(p) /\ Processing(q)) => p = q

(***************************************************************************)
(* engine_loop over one entry file, with retry_failed and                  *)
(* retry_failed_entries run from other processes. Every locked section is  *)
(* one step here; SpecPQ is the machine that takes the sections apart.     *)
(***************************************************************************)

\* Keys of the entry file, in the order of new_entries.items().
KeyOrder == <<"e1">>
Keys == {KeyOrder[i] : i \in 1 .. Len(KeyOrder)}

\* The rules file: the enabled rules of the file, per trigger type, in the
\* order of rules_data.items().
AddedRules == <<"rA">>
UpdatedRules == <<"rU">>

\* Last value of the clock (the model stops advancing time there).
MaxClock == 1

\* The max_retries argument every retry_failed_entries call passes.
MaxRetriesArg == 2

\* params.get('retry_delay_base', 5), in clock units: the values callers pass.
RetryDelayBases == {0, 1}

\* How many times retry_failed may reset one entry in a run of the model.
MaxManualResets == 1

\* len(processed_this_session) > 10000 clears the set.
SESSION_DEDUP_LIMIT == 10000

NoEntry == [status |-> "absent", retry_count |-> 0, next_retry |-> 0, updated_at |-> 0]

\* An entry as an external producer writes it: status queued, no retry fields.
NewEntry == [status |-> "queued", retry_count |-> 0, next_retry |-> 0, updated_at |-> 0]

\* The 'test' expressions of the event types, over (key, old_entry, new_entry):
\*   entry_added:   "any" is `True`, "new" is `not old_entry`
\*   entry_updated: "changed" is `old_entry != new_entry`,
\*                  "status" is `old_entry.get('status') != new_entry.get('status')`
AddedTests == {"any", "new"}
UpdatedTests == {"changed", "status"}

EvalAdded(test, old_entry, new_entry) ==
    IF test = "any" THEN TRUE ELSE old_entry = NoEntry

EvalUpdated(test, old_entry, new_entry) ==
    IF test = "changed" THEN old_entry # new_entry
    ELSE old_entry.status # new_entry.status

Pow3_linear(n) == n + 1

RECURSIVE Pow3(_)
Pow3(n) == IF n = 0 THEN 1 ELSE 3 * Pow3(n - 1)

EngInit ==
    /\ clock = 0
    /\ entries = [k \in Keys |-> NewEntry]
    /\ new_entries = [k \in Keys |-> NoEntry]
    /\ state_entries = [k \in Keys |-> NoEntry]
    /\ processed_this_session = {}
    /\ other_session_keys = 0
    /\ event_types \in [entry_added : AddedTests, entry_updated : UpdatedTests]
    /\ engPc = "sleep"
    /\ engRule = 1
    /\ engIdx = 1
    /\ engResult = "none"
    /\ firedSession = {}
    /\ firedSinceClear = {}
    /\ dupSession = FALSE
    /\ dupSinceClear = FALSE
    /\ actStart = [trigger |-> "none", status |-> "none"]
    /\ actOwn = FALSE
    /\ actEnd = [status |-> "none", own |-> FALSE]
    /\ rfeMoves = [k \in Keys |-> 0]
    /\ rfMoves = [k \in Keys |-> 0]

\* History: the dedup tuple t fires.
RecordFire(t) ==
    /\ firedSession' = firedSession \cup {t}
    /\ firedSinceClear' = firedSinceClear \cup {t}
    /\ dupSession' = (dupSession \/ t \in firedSession)
    /\ dupSinceClear' = (dupSinceClear \/ t \in firedSinceClear)

NoFire == UNCHANGED <<firedSession, firedSinceClear, dupSession, dupSinceClear>>

\* datetime.now() moves on.
Tick ==
    /\ clock < MaxClock
    /\ clock' = clock + 1
    /\ UNCHANGED <<entries, new_entries, state_entries, processed_this_session,
                   other_session_keys, event_types, engPc, engRule, engIdx, engResult>>
    /\ UNCHANGED histVars
    /\ UNCHANGED frameEng

\* An external writer rewrites an entry: updated_at changes, status does not.
Producer_touch(k) ==
    /\ entries[k].updated_at # clock
    /\ entries' = [entries EXCEPT ![k].updated_at = clock]
    /\ UNCHANGED <<clock, new_entries, state_entries, processed_this_session,
                   other_session_keys, event_types, engPc, engRule, engIdx, engResult>>
    /\ UNCHANGED histVars
    /\ UNCHANGED frameEng

\* engine_loop, top of an iteration: the rules are loaded and the file is read.
Poll_start ==
    /\ engPc = "sleep"
    /\ new_entries' = entries
    /\ engPc' = "added"
    /\ engRule' = 1
    /\ engIdx' = 1
    /\ UNCHANGED <<clock, entries, state_entries, processed_this_session,
                   other_session_keys, event_types, engResult>>
    /\ UNCHANGED histVars
    /\ UNCHANGED frameEng

\* The loop position after the current (rule, key) of the entry_added phase.
AddedAdvance ==
    IF engIdx < Len(KeyOrder)
    THEN /\ engPc' = "added" /\ engRule' = engRule /\ engIdx' = engIdx + 1
    ELSE IF engRule < Len(AddedRules)
    THEN /\ engPc' = "added" /\ engRule' = engRule + 1 /\ engIdx' = 1
    ELSE /\ engPc' = "updated" /\ engRule' = 1 /\ engIdx' = 1

\* The loop position after the current (rule, key) of the entry_updated phase.
UpdatedAdvance ==
    IF engIdx < Len(KeyOrder)
    THEN /\ engPc' = "updated" /\ engRule' = engRule /\ engIdx' = engIdx + 1
    ELSE IF engRule < Len(UpdatedRules)
    THEN /\ engPc' = "updated" /\ engRule' = engRule + 1 /\ engIdx' = 1
    ELSE /\ engPc' = "end" /\ engRule' = 1 /\ engIdx' = 1

\* session_key = f"{file_path}:{key}:added"
AddedSessionKey(key) == <<key, "added">>

\* A mutant of the session key: no status component.
UpdatedSessionKey_nostatus(key, rule_key, new_entry) == <<key, rule_key, "any">>

\* The dedup key built from updated_at instead of the status.
UpdatedSessionKey_stamp(key, rule_key, new_entry) == <<key, rule_key, new_entry.updated_at>>

\* session_key = f"{file_path}:{key}:{rule_key}:{entry_status}"
UpdatedSessionKey(key, rule_key, new_entry) == <<key, rule_key, new_entry.status>>

\* The entry_added loop body passes every `continue` for this key.
AddedFires(key) ==
    /\ new_entries[key].status \notin {"processed", "processing", "failed"}
    /\ AddedSessionKey(key) \notin processed_this_session
    /\ EvalAdded(event_types.entry_added, state_entries[key], new_entries[key])

\* process_queue_entry_with_lock, first with block: FALSE is `return False`.
PQE_marks(key) == entries[key].status \notin SkipStatuses

\* engine_loop, entry_added loop body for one (rule, key); when it reaches
\* process_queue_entry_with_lock, the check-and-mark section of that call.
Added_step ==
    /\ engPc = "added"
    /\ LET key == KeyOrder[engIdx] IN
       IF AddedFires(key)
       THEN /\ processed_this_session' = processed_this_session \cup {AddedSessionKey(key)}
            /\ RecordFire(<<key, "added">>)
            /\ IF PQE_marks(key)
               THEN /\ entries' = [entries EXCEPT ![key].status = "processing",
                                                  ![key].updated_at = clock]
                    /\ engPc' = "pq_action"
                    /\ UNCHANGED <<engRule, engIdx>>
               ELSE /\ AddedAdvance
                    /\ UNCHANGED entries
       ELSE /\ AddedAdvance
            /\ NoFire
            /\ UNCHANGED <<entries, processed_this_session>>
    /\ UNCHANGED <<clock, new_entries, state_entries, other_session_keys,
                   event_types, engResult>>
    /\ UNCHANGED <<actStart, actOwn, actEnd, rfeMoves, rfMoves>>
    /\ UNCHANGED frameEng

\* Statuses an action of a rule may itself write to the entry it works on
\* ("queued" stands for any status other than processing and processed).
ActionOwnStatuses == {"processed", "queued"}

\* process_queue_entry_with_lock: run_action(rule["action"], context, timeout).
\* The tool it invokes returns success, an error or runs into the timeout, and
\* may have rewritten the entry's status itself.
PQE_run_action ==
    /\ engPc = "pq_action"
    /\ LET key == KeyOrder[engIdx] IN
       /\ actStart' = [trigger |-> "entry_added", status |-> entries[key].status]
       /\ \E result \in {"success", "error", "timeout_failed"} :
            /\ engResult' = result
            /\ \/ /\ actOwn' = FALSE
                  /\ UNCHANGED entries
               \/ /\ result = "success"
                  /\ actOwn' = TRUE
                  /\ \E st \in ActionOwnStatuses :
                       entries' = [entries EXCEPT ![key].status = st,
                                                  ![key].updated_at = clock]
    /\ engPc' = "pq_outcome"
    /\ UNCHANGED <<clock, new_entries, state_entries, processed_this_session,
                   other_session_keys, event_types, engRule, engIdx>>
    /\ NoFire
    /\ UNCHANGED <<actEnd, rfeMoves, rfMoves>>
    /\ UNCHANGED frameEng

\* atomic_update_entry_status that stamps updated_at and leaves the status.
atomic_update_entry_status_stamp_only(key, new_status) ==
    [entries EXCEPT ![key].updated_at = clock]

\* atomic_update_entry_status(file, key, new_status, extra_fields), entry present.
atomic_update_entry_status(key, new_status) ==
    [entries EXCEPT ![key].status = new_status, ![key].updated_at = clock]

SuccessVerifyStatus_always(key) ==
    [entries EXCEPT ![key].status = "processed", ![key].updated_at = clock]

\* process_queue_entry_with_lock, "Success - verify status": under the lock,
\* processed and a new updated_at when the status read is processing, no
\* write otherwise.
SuccessVerifyStatus(key) ==
    IF entries[key].status = "processing"
    THEN [entries EXCEPT ![key].status = "processed", ![key].updated_at = clock]
    ELSE entries

\* process_queue_entry_with_lock after run_action: timeout_failed, failed, or
\* processed when the status is still processing.
PQE_outcome ==
    /\ engPc = "pq_outcome"
    /\ LET key == KeyOrder[engIdx] IN
       entries' = CASE engResult = "timeout_failed" ->
                          atomic_update_entry_status(key, "timeout_failed")
                    [] engResult = "error" ->
                          atomic_update_entry_status(key, "failed")
                    [] OTHER -> SuccessVerifyStatus(key)
    /\ engResult' = "none"
    /\ AddedAdvance
    /\ actEnd' = [status |-> entries'[KeyOrder[engIdx]].status, own |-> actOwn]
    /\ UNCHANGED <<clock, new_entries, state_entries, processed_this_session,
                   other_session_keys, event_types>>
    /\ NoFire
    /\ UNCHANGED <<actStart, actOwn, rfeMoves, rfMoves>>
    /\ UNCHANGED frameEng

\* The entry_updated loop body passes every `continue` for this (rule, key).
UpdatedFires(key, rule_key) ==
    /\ state_entries[key] # NoEntry
    /\ new_entries[key].status \notin {"processing", "failed"}
    /\ EvalUpdated(event_types.entry_updated, state_entries[key], new_entries[key])
    /\ UpdatedSessionKey(key, rule_key, new_entries[key]) \notin processed_this_session

\* engine_loop, entry_updated loop body for one (rule, key): run_action is
\* called with the entry as context and its result is dropped.
Updated_step ==
    /\ engPc = "updated"
    /\ LET key == KeyOrder[engIdx]
           rule_key == UpdatedRules[engRule] IN
       IF UpdatedFires(key, rule_key)
       THEN /\ processed_this_session' =
                  processed_this_session \cup {UpdatedSessionKey(key, rule_key, new_entries[key])}
            /\ RecordFire(<<key, rule_key, new_entries[key].status>>)
            /\ actStart' = [trigger |-> "entry_updated", status |-> entries[key].status]
       ELSE /\ NoFire
            /\ UNCHANGED <<processed_this_session, actStart>>
    /\ UpdatedAdvance
    /\ UNCHANGED <<clock, entries, new_entries, state_entries, other_session_keys,
                   event_types, engResult>>
    /\ UNCHANGED <<actOwn, actEnd, rfeMoves, rfMoves>>
    /\ UNCHANGED frameEng

\* engine_loop working through the other files of file_rules in the same
\* iteration: their session keys fill the set up to the limit.
Other_files ==
    /\ engPc = "end"
    /\ other_session_keys = 0
    /\ other_session_keys' = SESSION_DEDUP_LIMIT
    /\ UNCHANGED <<clock, entries, new_entries, state_entries, processed_this_session,
                   event_types, engPc, engRule, engIdx, engResult>>
    /\ UNCHANGED histVars
    /\ UNCHANGED frameEng

\* len(processed_this_session) > 10000
SessionOverflow ==
    Cardinality(processed_this_session) + other_session_keys > SESSION_DEDUP_LIMIT

\* engine_loop, end of an iteration: state[file_path] = new_data,
\* write_json(STATE_FILE, state), the overflow check, time.sleep(5).
Poll_end ==
    /\ engPc = "end"
    /\ state_entries' = new_entries
    /\ IF SessionOverflow
       THEN /\ processed_this_session' = {}
            /\ other_session_keys' = 0
            /\ firedSinceClear' = {}
       ELSE UNCHANGED <<processed_this_session, other_session_keys, firedSinceClear>>
    /\ engPc' = "sleep"
    /\ UNCHANGED <<clock, entries, new_entries, event_types, engRule, engIdx, engResult>>
    /\ UNCHANGED <<firedSession, dupSession, dupSinceClear, actStart, actOwn,
                   actEnd, rfeMoves, rfMoves>>
    /\ UNCHANGED frameEng

\* The engine process is stopped during its sleep and started again:
\* state = read_json(STATE_FILE); processed_this_session = set().
Engine_restart ==
    /\ engPc = "sleep"
    /\ processed_this_session' = {}
    /\ other_session_keys' = 0
    /\ firedSession' = {}
    /\ firedSinceClear' = {}
    /\ UNCHANGED <<clock, entries, new_entries, state_entries, event_types,
                   engPc, engRule, engIdx, engResult>>
    /\ UNCHANGED <<dupSession, dupSinceClear, actStart, actOwn, actEnd, rfeMoves, rfMoves>>
    /\ UNCHANGED frameEng

\* retry_failed: every failed entry goes back to queued.
retry_failed ==
    /\ \E k \in Keys : entries[k].status = "failed"
    /\ \A k \in Keys : entries[k].status = "failed" => rfMoves[k] < MaxManualResets
    /\ entries' = [k \in Keys |->
                     IF entries[k].status = "failed"
                     THEN [entries[k] EXCEPT !.status = "queued", !.updated_at = clock]
                     ELSE entries[k]]
    /\ rfMoves' = [k \in Keys |->
                     IF entries[k].status = "failed" THEN rfMoves[k] + 1 ELSE rfMoves[k]]
    /\ UNCHANGED <<clock, new_entries, state_entries, processed_this_session,
                   other_session_keys, event_types, engPc, engRule, engIdx, engResult>>
    /\ UNCHANGED <<firedSession, firedSinceClear, dupSession, dupSinceClear,
                   actStart, actOwn, actEnd, rfeMoves>>
    /\ UNCHANGED frameEng

\* The exhaustion check off by one: retry_count > max_retries.
RetriesExhausted_gt(retry_count, max_retries) == retry_count > max_retries

\* retry_failed_entries: if retry_count >= max_retries
RetriesExhausted(retry_count, max_retries) == retry_count >= max_retries

\* retry_failed_entries, loop body: the entry after the call made at `now`.
RetriedEntry(entry, now, max_retries, retry_delay_base) ==
    IF entry.status \notin {"failed", "timeout_failed"} THEN entry
    ELSE IF RetriesExhausted(entry.retry_count, max_retries)
    THEN [entry EXCEPT !.status = "permanently_failed", !.updated_at = now]
    ELSE IF entry.next_retry # 0 /\ now < entry.next_retry THEN entry
    ELSE [status |-> "queued",
          retry_count |-> entry.retry_count + 1,
          next_retry |-> now + retry_delay_base * Pow3(entry.retry_count),
          updated_at |-> now]

\* retry_failed_entries(file, max_retries, retry_delay_base): one call.
retry_failed_entries ==
    \E base \in RetryDelayBases :
    /\ \E k \in Keys : RetriedEntry(entries[k], clock, MaxRetriesArg, base) # entries[k]
    /\ entries' = [k \in Keys |-> RetriedEntry(entries[k], clock, MaxRetriesArg, base)]
    /\ rfeMoves' = [k \in Keys |->
                      IF /\ entries[k].status \in {"failed", "timeout_failed"}
                         /\ RetriedEntry(entries[k], clock, MaxRetriesArg, base).status = "queued"
                      THEN rfeMoves[k] + 1 ELSE rfeMoves[k]]
    /\ UNCHANGED <<clock, new_entries, state_entries, processed_this_session,
                   other_session_keys, event_types, engPc, engRule, engIdx, engResult>>
    /\ UNCHANGED <<firedSession, firedSinceClear, dupSession, dupSinceClear,
                   actStart, actOwn, actEnd, rfMoves>>
    /\ UNCHANGED frameEng

EngNext ==
    \/ Tick
    \/ \E k \in Keys : Producer_touch(k)
    \/ Poll_start
    \/ Added_step
    \/ PQE_run_action
    \/ PQE_outcome
    \/ Updated_step
    \/ Other_files
    \/ Poll_end
    \/ Engine_restart
    \/ retry_failed
    \/ retry_failed_entries

InitEngine == LockInit /\ PQIdle /\ EngInit /\ SupIdle /\ QueueIdle /\ StampIdle /\ MoreIdle

SpecEngine == InitEngine /\ [][EngNext]_vars

(***************************************************************************)
(* Claims on the engine                                                    *)
(***************************************************************************)

\* C3 (as stated): within one engine session, over any number of poll
\* iterations and also after the dedup set was cleared, no entry_updated rule
\* fires twice for the same (file, key, rule_key, status) and entry_added
\* processing never fires twice for the same (file, key).
C3_NoRefireInSession == ~dupSession

\* C3 (amended): within one engine session and with no clear of the dedup set
\* in between, no entry_updated rule fires twice for the same
\* (file, key, rule_key, status) and entry_added processing never fires twice
\* for the same (file, key), also when updated_at is rewritten between polls
\* without a status change.
C3_NoRefireBetweenClears == ~dupSinceClear

\* C3 witness: the entry_updated loop is about to look at an entry whose
\* updated_at was rewritten since the snapshot while its status stayed, the
\* event test is true, and the rule has already fired for that status.
C3_Witness ==
    /\ engPc = "updated"
    /\ LET key == KeyOrder[engIdx] IN
       /\ state_entries[key] # NoEntry
       /\ new_entries[key].status = state_entries[key].status
       /\ new_entries[key].updated_at # state_entries[key].updated_at
       /\ EvalUpdated(event_types.entry_updated, state_entries[key], new_entries[key])
       /\ <<key, UpdatedRules[engRule], new_entries[key].status>> \in firedSinceClear

EndStatuses == {"processed", "failed", "timeout_failed"}

C5_PermanentlyFailedIsTerminal ==
    [][\A k \in Keys : entries[k].status = "permanently_failed"
                         => entries'[k].status = "permanently_failed"]_vars

\* C6: over any sequence of failures and calls of retry_failed_entries and
\* retry_failed, an entry is moved from failed/timeout_failed back to queued at
\* most max_retries times.
C6_AtMostMaxRetriesMoves ==
    \A k \in Keys : rfeMoves[k] + rfMoves[k] <= MaxRetriesArg

\* C7: every entry's retry_count is at most max_retries in every reachable
\* state, all retry_failed_entries calls passing the same max_retries.
C7_RetryCountBounded ==
    \A k \in Keys : entries[k].retry_count <= MaxRetriesArg

\* C7 witness: an entry that has used up its retries has failed again, so the
\* next retry_failed_entries call meets retry_count = max_retries.
C7_Witness ==
    \E k \in Keys : /\ entries[k].retry_count = MaxRetriesArg
                    /\ entries[k].status \in {"failed", "timeout_failed"}

(***************************************************************************)
(* The agent supervisor: execute_queue step by step in two command         *)
(* processes, assign_task, batch_assign_tasks, kill_agents, and the worker *)
(* processes it spawns. Every command is a process of its own, so calls    *)
(* interleave at the steps below; nothing in the code serialises them.     *)
(* Not modelled: a failing Popen, a lockfile that does not parse, the       *)
(* reuse of a dead worker's pid by the operating system, and the worker    *)
(* of single agent mode running "rm data/execute_queue.lock" as its prompt *)
(* asks (the lockfile then goes away only by kill_agents or by the         *)
(* lockfile check of a later execute_queue).                               *)
(***************************************************************************)

\* MAX_PARALLEL_AGENTS = 3  # NEVER allow more than this
MAX_PARALLEL_AGENTS == 3

\* execute_queue: if age_minutes > 30
STALE_LOCK_MINUTES == 30

\* Pids the operating system hands out in a run of the model.
MaxPid == 4
Pids == 1 .. MaxPid

\* The latest time of a run of the model, and the steps time advances by.
MaxNow == 31
TickMinutes == {30, 31}

\* Command processes (every command runs in a process of its own).
SupProcs == {"s1", "s2"}

TaskIds == {"t1", "t2", "t3", "t4"}
NoTask == "absent"

\* The agent ids in sorted() order; "none" is a task without an agent_id field.
AgentOrder == <<"agent_1", "agent_2", "agent_3", "agent_4">>
AgentRank(a) == CHOOSE i \in 1 .. Len(AgentOrder) : AgentOrder[i] = a

\* The arguments the commands are called with.
ParallelArgs == {1, 5}
AssignArgs == {<<"t4", "agent_4">>}
BatchArgs == {<<"t1", "t2", "t3">>}

NoLock == [exists |-> FALSE, created_at |-> 0, pids |-> {}]

SupInit ==
    /\ supNow = 0
    /\ lockfile = NoLock
    /\ tasks = [t \in TaskIds |-> NoTask]
    /\ workers = [p \in Pids |-> "unborn"]
    /\ supPc = [s \in SupProcs |-> "idle"]
    /\ parallel = [s \in SupProcs |-> 1]
    /\ supResult = "none"
    /\ lockBuckets = 0
    /\ seenStale = FALSE
    /\ reclaiming = {}
    /\ lockReclaimed = FALSE

NewLockfile_epoch(created_at, pids) == [exists |-> TRUE, created_at |-> 0, pids |-> pids]

\* json.dump({"created_at": datetime.now().isoformat(), "pids": pids, ...})
NewLockfile(created_at, pids) == [exists |-> TRUE, created_at |-> created_at, pids |-> pids]

\* os.kill(pid, 0) succeeds
Alive(p) == workers[p] = "alive"

LiveWorkers == {p \in Pids : Alive(p)}

\* count_running_agents(): the pids of the lockfile that are alive, 0 without one.
count_running_agents ==
    IF lockfile.exists THEN Cardinality({p \in lockfile.pids : Alive(p)}) ELSE 0

\* enforce_agent_limit(): False at the limit.
enforce_agent_limit == ~(count_running_agents >= MAX_PARALLEL_AGENTS)

\* parallel = min(max(parallel, 1), MAX_PARALLEL_AGENTS)
ClampParallel(p) ==
    LET lo == IF p > 1 THEN p ELSE 1
    IN  IF lo < MAX_PARALLEL_AGENTS THEN lo ELSE MAX_PARALLEL_AGENTS

\* task_data.get("agent_id", "agent_1")
Bucket(a) == IF a = "none" THEN "agent_1" ELSE a

QueuedTasks == {t \in TaskIds : tasks[t] # NoTask}

\* The first n of sorted(keys).
SortedPrefix(keys, n) ==
    {a \in keys : Cardinality({b \in keys : AgentRank(b) < AgentRank(a)}) < n}

LimitAgents_all(keys) == keys

\* agent_ids = sorted(agent_tasks.keys())[:MAX_PARALLEL_AGENTS]
LimitAgents(keys) == SortedPrefix(keys, MAX_PARALLEL_AGENTS)

LockIsStale_ge(age_minutes) == age_minutes >= STALE_LOCK_MINUTES

\* if age_minutes > 30: should_remove = True
LockIsStale(age_minutes) == age_minutes > STALE_LOCK_MINUTES

\* The pids of the next n processes the operating system starts.
NextPid == Cardinality({p \in Pids : workers[p] # "unborn"}) + 1
FreshPids(n) == NextPid .. (NextPid + n - 1)

\* Entering the body of execute_queue(params) after the CLAUDECODE check.
EnterExecuteQueue(s, p) ==
    /\ supPc' = [supPc EXCEPT ![s] = "guard"]
    /\ parallel' = [parallel EXCEPT ![s] = ClampParallel(p)]
    /\ UNCHANGED <<supResult, seenStale, reclaiming>>

SupTick ==
    /\ \E d \in TickMinutes :
         /\ supNow + d <= MaxNow
         /\ supNow' = supNow + d
    /\ UNCHANGED <<lockfile, tasks, workers, supPc, parallel, supResult, lockBuckets,
                   seenStale, reclaiming, lockReclaimed>>
    /\ UNCHANGED frameSup

\* execute_queue(params), called as a command: the CLAUDECODE check and the
\* clamp of `parallel`.
execute_queue(s) ==
    /\ supPc[s] = "idle"
    /\ \E p \in ParallelArgs, CLAUDECODE \in BOOLEAN :
         IF CLAUDECODE
         THEN /\ supResult' = "error"
              /\ seenStale' = FALSE
              /\ UNCHANGED <<supPc, parallel, reclaiming>>
         ELSE EnterExecuteQueue(s, p)
    /\ UNCHANGED <<supNow, lockfile, tasks, workers, lockBuckets, lockReclaimed>>
    /\ UNCHANGED frameSup

\* assign_task(params): queue["tasks"][task_id] = task_entry, written whatever
\* the queue holds under task_id, then execute_queue({}) when auto_execute is
\* set and CLAUDECODE is not.
assign_task(s) ==
    /\ supPc[s] = "idle"
    /\ \E arg \in AssignArgs, auto_execute \in BOOLEAN, CLAUDECODE \in BOOLEAN :
         /\ tasks' = [tasks EXCEPT ![arg[1]] = arg[2]]
         /\ IF auto_execute /\ ~CLAUDECODE
            THEN EnterExecuteQueue(s, 1)
            ELSE UNCHANGED <<supPc, parallel, supResult, seenStale, reclaiming>>
    /\ UNCHANGED <<supNow, lockfile, workers, lockBuckets, lockReclaimed>>
    /\ UNCHANGED frameSup

\* batch_assign_tasks(params): task i (from 0) gets agent_{(i % parallel) + 1}
\* when parallel > 1, every task is assigned with auto_execute False, then
\* execute_queue({"parallel": parallel}) unless CLAUDECODE is set.
batch_assign_tasks(s) ==
    /\ supPc[s] = "idle"
    /\ \E batch \in BatchArgs, p \in ParallelArgs, CLAUDECODE \in BOOLEAN :
         LET par == ClampParallel(p)
             agent(i) == IF par > 1 THEN AgentOrder[((i - 1) % par) + 1] ELSE "none"
         IN  /\ tasks' = [t \in TaskIds |->
                            IF \E i \in 1 .. Len(batch) : batch[i] = t
                            THEN agent(CHOOSE i \in 1 .. Len(batch) : batch[i] = t)
                            ELSE tasks[t]]
             /\ IF ~CLAUDECODE
                THEN EnterExecuteQueue(s, par)
                ELSE UNCHANGED <<supPc, parallel, supResult, seenStale, reclaiming>>
    /\ UNCHANGED <<supNow, lockfile, workers, lockBuckets, lockReclaimed>>
    /\ UNCHANGED frameSup

\* return {"status": status, ...}: the locals of the call are gone.
Return(s, status) ==
    /\ supPc' = [supPc EXCEPT ![s] = "idle"]
    /\ supResult' = status
    /\ parallel' = [parallel EXCEPT ![s] = 1]
    /\ seenStale' = (lockfile.exists /\ supNow - lockfile.created_at > STALE_LOCK_MINUTES)
    /\ reclaiming' = reclaiming \ {s}

\* execute_queue: if not enforce_agent_limit(): return {"status": "blocked"}
EQ_enforce_agent_limit(s) ==
    /\ supPc[s] = "guard"
    /\ IF enforce_agent_limit
       THEN /\ supPc' = [supPc EXCEPT ![s] = "lockfile"]
            /\ UNCHANGED <<supResult, parallel, seenStale, reclaiming>>
       ELSE Return(s, "blocked")
    /\ UNCHANGED <<supNow, lockfile, tasks, workers, lockBuckets, lockReclaimed>>
    /\ UNCHANGED frameSup

\* execute_queue, LOCKFILE CHECK: a lock older than 30 minutes is removed; a
\* younger one with a live pid returns already_running; one with no live pid
\* is removed.
EQ_lockfile_check(s) ==
    /\ supPc[s] = "lockfile"
    /\ IF ~lockfile.exists
       THEN /\ supPc' = [supPc EXCEPT ![s] = "spawn"]
            /\ UNCHANGED <<lockfile, lockBuckets, supResult, parallel, seenStale,
                           reclaiming, lockReclaimed>>
       ELSE LET age_minutes == supNow - lockfile.created_at
                any_alive == \E p \in lockfile.pids : Alive(p)
            IN  IF LockIsStale(age_minutes) \/ ~any_alive
                THEN /\ lockfile' = NoLock
                     /\ lockBuckets' = 0
                     /\ lockReclaimed' = FALSE
                     /\ reclaiming' = IF age_minutes > STALE_LOCK_MINUTES /\ ~any_alive
                                       THEN reclaiming \cup {s}
                                       ELSE reclaiming
                     /\ supPc' = [supPc EXCEPT ![s] = "spawn"]
                     /\ UNCHANGED <<supResult, parallel, seenStale>>
                ELSE /\ Return(s, "already_running")
                     /\ UNCHANGED <<lockfile, lockBuckets, lockReclaimed>>
    /\ UNCHANGED <<supNow, tasks, workers>>
    /\ UNCHANGED frameSup

\* execute_queue from CHECK for queued tasks to the end: with no queued task
\* the call returns success. PARALLEL MODE spawns one worker for each of the
\* first MAX_PARALLEL_AGENTS agent ids, SINGLE AGENT MODE spawns one worker;
\* CREATE LOCKFILE writes the pids of the workers spawned, and the call
\* returns task_started.
EQ_spawn(s) ==
    /\ supPc[s] = "spawn"
    /\ IF QueuedTasks = {}
       THEN /\ Return(s, "success")
            /\ UNCHANGED <<workers, lockfile, lockBuckets, lockReclaimed>>
       ELSE LET agent_tasks == {Bucket(tasks[t]) : t \in QueuedTasks}
                n == IF parallel[s] > 1 THEN Cardinality(LimitAgents(agent_tasks)) ELSE 1
                pids == FreshPids(n)
            IN  /\ NextPid + n - 1 <= MaxPid
                /\ workers' = [p \in Pids |-> IF p \in pids THEN "alive" ELSE workers[p]]
                /\ lockfile' = NewLockfile(supNow, pids)
                /\ lockReclaimed' = (s \in reclaiming)
                /\ lockBuckets' = IF parallel[s] > 1 THEN Cardinality(agent_tasks) ELSE 0
                /\ Return(s, "task_started")
    /\ UNCHANGED <<supNow, tasks>>
    /\ UNCHANGED frameSup

\* kill_agents(params): SIGKILL to the pids of the lockfile, os.remove(lockfile),
\* then pkill -f "claude.*-p", which matches every worker (spawned as claude -p).
kill_agents ==
    /\ \/ lockfile.exists
       \/ LiveWorkers # {}
    /\ workers' = [p \in Pids |-> IF Alive(p) THEN "dead" ELSE workers[p]]
    /\ lockfile' = NoLock
    /\ lockBuckets' = 0
    /\ lockReclaimed' = FALSE
    /\ UNCHANGED <<supNow, tasks, supPc, parallel, supResult, seenStale, reclaiming>>
    /\ UNCHANGED frameSup

\* A worker process ends (its work is done, or it dies) and leaves the lockfile.
Worker_exit(w) ==
    /\ Alive(w)
    /\ workers' = [workers EXCEPT ![w] = "dead"]
    /\ UNCHANGED <<supNow, lockfile, tasks, supPc, parallel, supResult, lockBuckets,
                   seenStale, reclaiming, lockReclaimed>>
    /\ UNCHANGED frameSup

SupNext ==
    \/ SupTick
    \/ \E s \in SupProcs : execute_queue(s)
    \/ \E s \in SupProcs : assign_task(s)
    \/ \E s \in SupProcs : batch_assign_tasks(s)
    \/ \E s \in SupProcs : EQ_enforce_agent_limit(s)
    \/ \E s \in SupProcs : EQ_lockfile_check(s)
    \/ \E s \in SupProcs : EQ_spawn(s)
    \/ kill_agents
    \/ \E w \in Pids : Worker_exit(w)

InitSup == LockInit /\ PQIdle /\ EngIdle /\ SupInit /\ QueueIdle /\ StampIdle /\ MoreIdle

SpecSup == InitSup /\ [][SupNext]_vars

(***************************************************************************)
(* Claims on the supervisor                                                *)
(***************************************************************************)

\* C8: after any interleaving of execute_queue, assign_task,
\* batch_assign_tasks and kill_agents, the number of live worker processes
\* the supervisor spawned is at most MAX_PARALLEL_AGENTS.
C8_LiveWorkersBounded == Cardinality(LiveWorkers) <= MAX_PARALLEL_AGENTS

\* C9: in every reachable state the lockfile lists at most
\* MAX_PARALLEL_AGENTS pids, whatever the queue holds and whatever parallel
\* argument execute_queue was called with.
C9_LockfilePidsBounded == Cardinality(lockfile.pids) <= MAX_PARALLEL_AGENTS

\* C9 witness: the lockfile was written by a call whose queue held tasks of
\* more than MAX_PARALLEL_AGENTS agent ids, and lists MAX_PARALLEL_AGENTS pids.
C9_Witness ==
    /\ lockfile.exists
    /\ lockBuckets > MAX_PARALLEL_AGENTS
    /\ Cardinality(lockfile.pids) = MAX_PARALLEL_AGENTS

\* A step of process s in which execute_queue, with a lockfile in place,
\* either returns or goes on to spawning.
DecidesOnLock(s) ==
    /\ lockfile.exists
    /\ supPc[s] \in {"guard", "lockfile"}
    /\ supPc'[s] \in {"idle", "spawn"}

\* The rule of the lockfile check as the claim states it: an old lock or a
\* lock with no live pid is removed and the call goes on; else the call
\* spawns nothing, leaves the lockfile and returns already_running.
StaleRule(s) ==
    IF \/ supNow - lockfile.created_at > STALE_LOCK_MINUTES
       \/ \A p \in lockfile.pids : workers[p] # "alive"
    THEN /\ lockfile' = NoLock
         /\ supPc'[s] = "spawn"
    ELSE /\ lockfile' = lockfile
         /\ workers' = workers
         /\ supPc'[s] = "idle"
         /\ supResult' = "already_running"

\* C10 as stated: whenever execute_queue meets a lockfile it removes the lock
\* and goes on if the lock is older than 30 minutes or none of its pids is
\* alive, and otherwise spawns nothing, leaves the lock and returns
\* already_running.
C10_StaleOrAlreadyRunning ==
    [][\A s \in SupProcs : DecidesOnLock(s) => StaleRule(s)]_vars

\* C10 amended: execute_queue first counts the live pids of the lockfile and
\* with MAX_PARALLEL_AGENTS or more alive it spawns nothing, leaves the
\* lockfile and returns blocked, whatever the age of the lock; a call that
\* passes this count and then meets a lockfile follows the rule of C10.
C10_BlockedStaleOrAlreadyRunning ==
    [][\A s \in SupProcs :
         /\ (lockfile.exists /\ supPc[s] = "guard" /\ supPc'[s] # "guard") =>
              /\ lockfile' = lockfile
              /\ workers' = workers
              /\ IF Cardinality({p \in lockfile.pids : workers[p] = "alive"})
                      >= MAX_PARALLEL_AGENTS
                 THEN supPc'[s] = "idle" /\ supResult' = "blocked"
                 ELSE supPc'[s] = "lockfile"
         /\ (DecidesOnLock(s) /\ supPc[s] = "lockfile") => StaleRule(s)]_vars

\* C10 witness: execute_queue has returned blocked with a lockfile older than
\* 30 minutes in place.
C10_Witness == supResult = "blocked" /\ seenStale

QProcs == {"w1", "w2", "w3"}
AgentOf(p) == CASE p = "w1" -> "agent_1" [] p = "w2" -> "agent_2" [] OTHER -> "agent_3"
\* The processes that also run the commands other than process_queue.
QCommanders == {"w1", "w2"}

QTaskIds == {"t1", "t2", "t3"}
QAgentIds == {"agent_1", "agent_2", "agent_3"}
\* The task ids the commands other than process_queue are called with.
QArgTaskIds == {"t1", "t2"}

\* Commands a process starts in one run.
MaxQCalls == 2

\* A task_id that is not a key of queue["tasks"].
NoQTask == [status |-> "absent", agent_id |-> "none", started_at |-> 0]

\* task_entry of assign_task; agent_id "none" is an entry without the field.
task_entry(agent_id, now) ==
    [status |-> "queued", agent_id |-> agent_id, started_at |-> now]

\* queue["tasks"][task_id] = task_entry
QueueAfter_assign_task(q, task_id, agent_id, now) ==
    [q EXCEPT ![task_id] = task_entry(agent_id, now)]

\* A mutant of the agent filter: every queued task passes.
AgentFilterPasses_any(task, agent_id) == TRUE

\* `if agent_id: if task_agent != agent_id: continue`
AgentFilterPasses(task, agent_id) ==
    agent_id = "none" \/ task.agent_id = agent_id

\* tasks_marked of process_queue, from the queue it loaded.
tasks_marked(q, agent_id) ==
    {t \in DOMAIN q : q[t].status = "queued" /\ AgentFilterPasses(q[t], agent_id)}

\* The local queue of process_queue after its loop.
QueueAfter_process_queue(q, agent_id, now) ==
    [t \in DOMAIN q |->
        IF t \in tasks_marked(q, agent_id)
        THEN [q[t] EXCEPT !.status = "in_progress", !.started_at = now]
        ELSE q[t]]

\* cancel_task gets past its error returns.
CancelAllowed(q, task_id) ==
    /\ q[task_id] # NoQTask
    /\ q[task_id].status \notin {"done", "error"}

QueueAfter_cancel_task(q, task_id) ==
    [q EXCEPT ![task_id].status = "cancelled"]

\* update_task gets past its error returns.
UpdateAllowed(q, task_id) ==
    /\ q[task_id] # NoQTask
    /\ q[task_id].status = "queued"

QueueAfter_update_task(q, task_id, new_agent_id) ==
    [q EXCEPT ![task_id].agent_id = new_agent_id]

\* mark_task_in_progress gets past its error returns.
MarkAllowed(q, task_id) ==
    /\ q[task_id] # NoQTask
    /\ q[task_id].status \in {"queued", "in_progress"}

\* started_at is a field of every task_entry, so it is never set here.
QueueAfter_mark_task_in_progress(q, task_id) ==
    [q EXCEPT ![task_id].status = "in_progress"]

\* `if task_id in queue.get("tasks", {})` of log_task_completion.
InQueue(q, task_id) == q[task_id] # NoQTask

\* A mutant of the removal: the task stays in the queue.
QueueAfter_log_task_completion_keep(q, task_id) == q

\* `del queue["tasks"][task_id]`, whatever the normalised status.
QueueAfter_log_task_completion(q, task_id) ==
    [q EXCEPT ![task_id] = NoQTask]

\* The queue after batch_assign_tasks queued one task per agent.
QueueInit ==
    /\ queue = [t \in QTaskIds |->
                  task_entry(CASE t = "t1" -> "agent_1" [] t = "t2" -> "agent_2"
                                  [] OTHER -> "agent_3", 0)]
    /\ qPc = [p \in QProcs |-> "idle"]
    /\ qCmd = [p \in QProcs |-> [op |-> "none", task_id |-> "none", agent_id |-> "none"]]
    /\ qLocal = [p \in QProcs |-> <<>>]
    /\ qCalls = [p \in QProcs |-> 0]
    /\ claims = [t \in QTaskIds |-> 0]
    /\ expected = queue
    /\ results = <<>>
    /\ tNow = 0
    /\ pending_tasks = {}

\* `with open(queue_file, 'r') as f: queue = json.load(f)`
Load(p, op, task_id, agent_id) ==
    /\ qPc[p] = "idle"
    /\ qCalls[p] < MaxQCalls
    /\ qPc' = [qPc EXCEPT ![p] = "loaded"]
    /\ qCmd' = [qCmd EXCEPT ![p] = [op |-> op, task_id |-> task_id, agent_id |-> agent_id]]
    /\ qLocal' = [qLocal EXCEPT ![p] = queue]
    /\ qCalls' = [qCalls EXCEPT ![p] = @ + 1]
    /\ UNCHANGED <<queue, claims, expected, results, tNow, pending_tasks>>

\* The rest of a command: when it gets past its error returns it dumps its
\* local queue `newq` over the file, and then it returns.  `newexpected` is
\* what the command makes of `expected`.
Finish(p, op, writes, newq, newexpected) ==
    /\ qPc[p] = "loaded"
    /\ qCmd[p].op = op
    /\ queue' = IF writes THEN newq ELSE queue
    /\ expected' = IF writes THEN newexpected ELSE expected
    /\ qPc' = [qPc EXCEPT ![p] = "idle"]
    /\ qLocal' = [qLocal EXCEPT ![p] = <<>>]
    /\ qCmd' = [qCmd EXCEPT ![p] = [op |-> "none", task_id |-> "none", agent_id |-> "none"]]
    /\ UNCHANGED <<qCalls, results, tNow, pending_tasks>>

process_queue_load(p) ==
    /\ Load(p, "process_queue", "none", AgentOf(p))
    /\ UNCHANGED frameQueue

process_queue_return(p) ==
    LET agent_id == qCmd[p].agent_id
        pending == tasks_marked(qLocal[p], agent_id)
        Allowed(q) == tasks_marked(q, agent_id) # {}
        After(q) == QueueAfter_process_queue(q, agent_id, 0)
    IN  /\ Finish(p, "process_queue", pending # {}, After(qLocal[p]),
                  IF Allowed(expected) THEN After(expected) ELSE expected)
        /\ claims' = [t \in QTaskIds |-> IF t \in pending THEN claims[t] + 1 ELSE claims[t]]
        /\ UNCHANGED frameQueue

assign_task_load(p) ==
    /\ p \in QCommanders
    /\ \E t \in QArgTaskIds : Load(p, "assign_task", t, AgentOf(p))
    /\ UNCHANGED frameQueue

assign_task_return(p) ==
    LET t == qCmd[p].task_id
        Allowed(q) == TRUE
        After(q) == QueueAfter_assign_task(q, t, qCmd[p].agent_id, 0)
    IN  /\ Finish(p, "assign_task", TRUE, After(qLocal[p]),
                  IF Allowed(expected) THEN After(expected) ELSE expected)
        /\ UNCHANGED <<claims, frameQueue>>

cancel_task_load(p) ==
    /\ p \in QCommanders
    /\ \E t \in QArgTaskIds : Load(p, "cancel_task", t, "none")
    /\ UNCHANGED frameQueue

cancel_task_return(p) ==
    LET t == qCmd[p].task_id
        Allowed(q) == CancelAllowed(q, t)
        After(q) == QueueAfter_cancel_task(q, t)
    IN  /\ Finish(p, "cancel_task", Allowed(qLocal[p]), After(qLocal[p]),
                  IF Allowed(expected) THEN After(expected) ELSE expected)
        /\ UNCHANGED <<claims, frameQueue>>

update_task_load(p) ==
    /\ p \in QCommanders
    /\ \E t \in QArgTaskIds : Load(p, "update_task", t, AgentOf(p))
    /\ UNCHANGED frameQueue

update_task_return(p) ==
    LET t == qCmd[p].task_id
        Allowed(q) == UpdateAllowed(q, t)
        After(q) == QueueAfter_update_task(q, t, qCmd[p].agent_id)
    IN  /\ Finish(p, "update_task", Allowed(qLocal[p]), After(qLocal[p]),
                  IF Allowed(expected) THEN After(expected) ELSE expected)
        /\ UNCHANGED <<claims, frameQueue>>

mark_task_in_progress_load(p) ==
    /\ p \in QCommanders
    /\ \E t \in QArgTaskIds : Load(p, "mark_task_in_progress", t, "none")
    /\ UNCHANGED frameQueue

mark_task_in_progress_return(p) ==
    LET t == qCmd[p].task_id
        Allowed(q) == MarkAllowed(q, t)
        After(q) == QueueAfter_mark_task_in_progress(q, t)
    IN  /\ Finish(p, "mark_task_in_progress", Allowed(qLocal[p]), After(qLocal[p]),
                  IF Allowed(expected) THEN After(expected) ELSE expected)
        /\ UNCHANGED <<claims, frameQueue>>

log_task_completion_load(p) ==
    /\ p \in QCommanders
    /\ \E t \in QArgTaskIds : Load(p, "log_task_completion", t, "none")
    /\ UNCHANGED frameQueue

log_task_completion_return(p) ==
    LET t == qCmd[p].task_id
        Allowed(q) == InQueue(q, t)
        After(q) == QueueAfter_log_task_completion(q, t)
    IN  /\ Finish(p, "log_task_completion", Allowed(qLocal[p]), After(qLocal[p]),
                  IF Allowed(expected) THEN After(expected) ELSE expected)
        /\ UNCHANGED <<claims, frameQueue>>

\* Workers with distinct agent ids that only claim.
ClaimsNext ==
    \/ \E p \in QProcs : process_queue_load(p)
    \/ \E p \in QProcs : process_queue_return(p)

InitClaims == LockInit /\ PQIdle /\ EngIdle /\ SupIdle /\ QueueInit /\ StampIdle /\ MoreIdle

SpecClaims == InitClaims /\ [][ClaimsNext]_vars

\* Two processes running any of the six commands on the queue file.
QueueNext ==
    \/ \E p \in QCommanders : process_queue_load(p)
    \/ \E p \in QCommanders : process_queue_return(p)
    \/ \E p \in QCommanders : assign_task_load(p)
    \/ \E p \in QCommanders : assign_task_return(p)
    \/ \E p \in QCommanders : cancel_task_load(p)
    \/ \E p \in QCommanders : cancel_task_return(p)
    \/ \E p \in QCommanders : update_task_load(p)
    \/ \E p \in QCommanders : update_task_return(p)
    \/ \E p \in QCommanders : mark_task_in_progress_load(p)
    \/ \E p \in QCommanders : mark_task_in_progress_return(p)
    \/ \E p \in QCommanders : log_task_completion_load(p)
    \/ \E p \in QCommanders : log_task_completion_return(p)

InitQueue == LockInit /\ PQIdle /\ EngIdle /\ SupIdle /\ QueueInit /\ StampIdle /\ MoreIdle

SpecQueue == InitQueue /\ [][QueueNext]_vars

(***************************************************************************)
(* The task commands run one after the other (no two at the same time):    *)
(* each action is a whole command, on the queue file and on the results    *)
(* file data/claude_task_results.json.                                     *)
(***************************************************************************)

\* The latest time of a run of SpecTasks.
MaxTaskNow == 1

\* The task ids of SpecResults.
MaxTaskId == 13
RTaskIds == 1 .. MaxTaskId

\* The arguments of SpecTasks: assign_task (task_id, agent_id; "none" is a
\* call without agent_id), update_task (task_id, agent_id), process_queue
\* (agent_id), cancel_task (task_id), mark_task_in_progress (task_id) and
\* log_task_completion (task_id, status).
AssignTaskArgs == {<<"t1", "agent_1">>, <<"t2", "agent_1">>, <<"t3", "none">>}
UpdateTaskArgs == {<<"t2", "agent_2">>}
ClaimArgs == {"none", "agent_1", "agent_2"}
CancelArgs == {"t3"}
MarkArgs == {"t1"}
CompletionArgs == {"t1", "t2"}
StatusArgs == {"done", "failed"}

\* `if len(results.get("results", {})) > 10` and `sorted_results[-10:]`
RESULTS_KEPT == 10

\* x[1].get("completed_at", "") of an entry without completed_at: the empty
\* string sorts before every timestamp.
NoCompletedAt == -1

\* status_lower in ["completed", "complete", "done"]; the statuses passed
\* here are in lower case and stripped already.
NormalizedStatus(status) ==
    IF status \in {"completed", "complete", "done"} THEN "done" ELSE "error"

\* task_id in results.get("results", {}); results is the sequence of the
\* entries of results["results"] in dict order.
HasResult(res, task_id) == \E i \in 1 .. Len(res) : res[i].task_id = task_id

\* The stub mark_task_in_progress adds when the task has no entry.
ResultsAfter_mark_task_in_progress(res, task_id) ==
    IF HasResult(res, task_id) THEN res
    ELSE Append(res, [task_id |-> task_id, status |-> "in_progress",
                      completed_at |-> NoCompletedAt])

\* sorted(results["results"].items(), key=completed_at): a stable sort.
sorted_results(res) ==
    LET Before(i, j) == \/ res[i].completed_at < res[j].completed_at
                        \/ res[i].completed_at = res[j].completed_at /\ i < j
        Rank(i) == 1 + Cardinality({j \in 1 .. Len(res) : Before(j, i)})
    IN  [k \in 1 .. Len(res) |-> res[CHOOSE i \in 1 .. Len(res) : Rank(i) = k]]

\* to_keep = dict(sorted_results[-10:])
to_keep(res) ==
    SubSeq(sorted_results(res), Len(res) - RESULTS_KEPT + 1, Len(res))

\* "Archive old results if count > 10"
ArchivedResults(res) ==
    IF Len(res) > RESULTS_KEPT THEN to_keep(res) ELSE res

\* results["results"][task_id] = {...} after the archive step: an entry the
\* dict holds keeps its place, a new one goes last.
ResultsAfter_log_task_completion(res, task_id, status, now) ==
    LET kept == ArchivedResults(res)
        entry == [task_id |-> task_id, status |-> NormalizedStatus(status),
                  completed_at |-> now]
    IN  IF HasResult(kept, task_id)
        THEN [i \in 1 .. Len(kept) |->
                 IF kept[i].task_id = task_id THEN entry ELSE kept[i]]
        ELSE Append(kept, entry)

\* task_status of check_task_status: the queue first, then the results.
check_task_status(q, res, task_id) ==
    IF InQueue(q, task_id) THEN q[task_id].status
    ELSE IF HasResult(res, task_id) THEN "done"
    ELSE "not_found"

ConcurrencyIdle ==
    /\ qPc = <<>>
    /\ qCmd = <<>>
    /\ qLocal = <<>>
    /\ qCalls = <<>>
    /\ claims = <<>>
    /\ expected = <<>>

\* No queue file and no results file yet.
TasksInit ==
    /\ queue = [t \in QTaskIds |-> NoQTask]
    /\ results = <<>>
    /\ tNow = 0
    /\ pending_tasks = {}
    /\ ConcurrencyIdle

ResultsInit ==
    /\ queue = [t \in RTaskIds |-> NoQTask]
    /\ results = <<>>
    /\ tNow = 0
    /\ pending_tasks = {}
    /\ ConcurrencyIdle

\* Time passes between two commands.
TaskTick ==
    /\ tNow < MaxTaskNow
    /\ tNow' = tNow + 1
    /\ UNCHANGED <<queue, results, pending_tasks, qPc, qCmd, qLocal, qCalls, claims, expected>>
    /\ UNCHANGED frameQueue

\* assign_task with auto_execute false (or inside a session, CLAUDECODE set).
assign_task_call(task_id, agent_id) ==
    /\ queue' = QueueAfter_assign_task(queue, task_id, agent_id, tNow)
    /\ UNCHANGED <<results, tNow, pending_tasks, qPc, qCmd, qLocal, qCalls, claims, expected>>
    /\ UNCHANGED frameQueue

process_queue_call(agent_id) ==
    /\ queue' = QueueAfter_process_queue(queue, agent_id, tNow)
    /\ pending_tasks' = tasks_marked(queue, agent_id)
    /\ UNCHANGED <<results, tNow, qPc, qCmd, qLocal, qCalls, claims, expected>>
    /\ UNCHANGED frameQueue

cancel_task_call(task_id) ==
    /\ queue' = IF CancelAllowed(queue, task_id)
                THEN QueueAfter_cancel_task(queue, task_id) ELSE queue
    /\ UNCHANGED <<results, tNow, pending_tasks, qPc, qCmd, qLocal, qCalls, claims, expected>>
    /\ UNCHANGED frameQueue

update_task_call(task_id, new_agent_id) ==
    /\ queue' = IF UpdateAllowed(queue, task_id)
                THEN QueueAfter_update_task(queue, task_id, new_agent_id) ELSE queue
    /\ UNCHANGED <<results, tNow, pending_tasks, qPc, qCmd, qLocal, qCalls, claims, expected>>
    /\ UNCHANGED frameQueue

mark_task_in_progress_call(task_id) ==
    /\ IF MarkAllowed(queue, task_id)
       THEN /\ queue' = QueueAfter_mark_task_in_progress(queue, task_id)
            /\ results' = ResultsAfter_mark_task_in_progress(results, task_id)
       ELSE UNCHANGED <<queue, results>>
    /\ UNCHANGED <<tNow, pending_tasks, qPc, qCmd, qLocal, qCalls, claims, expected>>
    /\ UNCHANGED frameQueue

log_task_completion_call(task_id, status) ==
    /\ queue' = IF InQueue(queue, task_id)
                THEN QueueAfter_log_task_completion(queue, task_id) ELSE queue
    /\ results' = ResultsAfter_log_task_completion(results, task_id, status, tNow)
    /\ UNCHANGED <<tNow, pending_tasks, qPc, qCmd, qLocal, qCalls, claims, expected>>
    /\ UNCHANGED frameQueue

TasksNext ==
    \/ TaskTick
    \/ \E arg \in AssignTaskArgs : assign_task_call(arg[1], arg[2])
    \/ \E a \in ClaimArgs : process_queue_call(a)
    \/ \E t \in CancelArgs : cancel_task_call(t)
    \/ \E arg \in UpdateTaskArgs : update_task_call(arg[1], arg[2])
    \/ \E t \in MarkArgs : mark_task_in_progress_call(t)
    \/ \E t \in CompletionArgs, st \in StatusArgs : log_task_completion_call(t, st)

InitTasks == LockInit /\ PQIdle /\ EngIdle /\ SupIdle /\ TasksInit /\ StampIdle /\ MoreIdle

SpecTasks == InitTasks /\ [][TasksNext]_vars

\* The task ids in the queue file or in the results file.
KnownTaskIds(q, res) ==
    {t \in DOMAIN q : InQueue(q, t)} \cup {res[i].task_id : i \in 1 .. Len(res)}

\* task_id = f"task_{now}_{uuid4}" of an assign_task call without task_id: an
\* id that is in neither file.
FreshTaskId(q, res) ==
    CHOOSE t \in DOMAIN q \ KnownTaskIds(q, res) :
        \A u \in DOMAIN q \ KnownTaskIds(q, res) : t <= u

\* assign_task without task_id, once the queue is empty.
assign_fresh_task ==
    /\ \A t \in RTaskIds : ~InQueue(queue, t)
    /\ RTaskIds \ KnownTaskIds(queue, results) # {}
    /\ assign_task_call(FreshTaskId(queue, results), "none")

\* mark_task_in_progress for a task of the queue.
mark_open_task ==
    \E t \in RTaskIds : InQueue(queue, t) /\ mark_task_in_progress_call(t)

\* log_task_completion with status "done" for a task of the queue.
complete_open_task ==
    \E t \in RTaskIds : InQueue(queue, t) /\ log_task_completion_call(t, "done")

\* Tasks are assigned, marked and completed, one command at a time.
ResultsNext ==
    \/ TaskTick
    \/ assign_fresh_task
    \/ mark_open_task
    \/ complete_open_task

InitResults == LockInit /\ PQIdle /\ EngIdle /\ SupIdle /\ ResultsInit /\ StampIdle /\ MoreIdle

SpecResults == InitResults /\ [][ResultsNext]_vars

(***************************************************************************)
(* Task queue claims                                                       *)
(***************************************************************************)

\* C12: over a run of process_queue calls by workers with distinct agent
\* ids, no task id is returned by more than one call.
C12_NoTaskClaimedTwice ==
    \A t \in QTaskIds : claims[t] <= 1

\* C13: whenever no command is between its load and its return, the queue
\* file is what the commands that returned success make of it one after the
\* other: no update is lost.
C13_NoLostUpdate ==
    (\A p \in QProcs : qPc[p] = "idle") => queue = expected

\* C14: a process_queue call that runs alone sets every queued task that
\* matches its agent_id filter (every queued task when no agent_id is given)
\* to in_progress with one and the same started_at, the time of the call,
\* returns exactly those tasks, and leaves every other task and the results
\* file as they were.
C14_ClaimMarksExactlyMatching ==
    [][\A a \in ClaimArgs :
         process_queue_call(a) =>
           LET matching == {t \in QTaskIds :
                              /\ queue[t].status = "queued"
                              /\ a = "none" \/ queue[t].agent_id = a}
           IN  /\ pending_tasks' = matching
               /\ \A t \in matching : /\ queue'[t].status = "in_progress"
                                      /\ queue'[t].started_at = tNow
                                      /\ queue'[t].agent_id = queue[t].agent_id
               /\ \A t, u \in matching : queue'[t].started_at = queue'[u].started_at
               /\ \A t \in QTaskIds \ matching : queue'[t] = queue[t]
               /\ results' = results]_vars

\* C14 witness: a claim for agent_1, later than the assignments, returned
\* t1 and t2 and left the queued task t3 of no agent as it was.
C14_Witness ==
    /\ pending_tasks = {"t1", "t2"}
    /\ \A t \in {"t1", "t2"} : /\ queue[t].status = "in_progress"
                               /\ queue[t].agent_id = "agent_1"
                               /\ queue[t].started_at = 1
    /\ queue["t3"] = task_entry("none", 0)

\* C15: right after assign_task for a task, check_task_status reports it
\* queued; right after a process_queue call that returned it, in_progress;
\* right after log_task_completion for it, the task is not in the queue file
\* and has an entry in the results file.  (Each conjunct reads "the step is
\* not this command, or the report is as claimed".)
C15_StatusFollowsCommands ==
    [][/\ \A arg \in AssignTaskArgs :
            \/ check_task_status(queue', results', arg[1]) = "queued"
            \/ ~assign_task_call(arg[1], arg[2])
       /\ \A a \in ClaimArgs :
            \/ \A t \in pending_tasks' :
                 check_task_status(queue', results', t) = "in_progress"
            \/ ~process_queue_call(a)
       /\ \A t \in CompletionArgs, st \in StatusArgs :
            \/ /\ ~InQueue(queue', t)
               /\ HasResult(results', t)
            \/ ~log_task_completion_call(t, st)]_vars

\* C15 witness: t1 was assigned, claimed and completed (it is out of the
\* queue and has a finished result), while t2 is reported in_progress and t3
\* queued.
C15_Witness ==
    /\ ~InQueue(queue, "t1")
    /\ \E i \in 1 .. Len(results) :
          results[i].task_id = "t1" /\ results[i].status \in {"done", "error"}
    /\ check_task_status(queue, results, "t2") = "in_progress"
    /\ check_task_status(queue, results, "t3") = "queued"

\* C16: log_task_completion for an in_progress task with a status that
\* normalises to error leaves the task in the queue file with status error.
C16_ErrorCompletionStaysQueued ==
    [][\A t \in CompletionArgs, st \in StatusArgs :
         (/\ log_task_completion_call(t, st)
          /\ NormalizedStatus(st) = "error"
          /\ queue[t].status = "in_progress") =>
            /\ InQueue(queue', t)
            /\ queue'[t].status = "error"]_vars

\* C17: when a log_task_completion call returns, the results file holds at
\* most 10 entries.
C17_ResultsCapped ==
    [][\A t \in RTaskIds :
         (InQueue(queue, t) /\ log_task_completion_call(t, "done")) =>
            Len(results') <= RESULTS_KEPT]_vars

(***************************************************************************)
(* The timestamps of one queue entry of the automation engine, under the   *)
(* engine's status writes and the retry commands of another process.       *)
(* Every `with FileLock(file_path):` block is one step here (the lock      *)
(* itself is the subject of SpecLock); retry_failed_entries reads the      *)
(* clock before it enters its block, so it is two steps.                   *)
(***************************************************************************)

\* The latest reading of the wall clock in a run of SpecStamps.
MaxWall == 2

\* An entry without the status_changed_at field.
NoStatusChangedAt == -1

\* The entry as a producer wrote it.
StampedNewEntry ==
    [status |-> "queued", retry_count |-> 0, next_retry |-> 0, updated_at |-> 0,
     status_changed_at |-> NoStatusChangedAt]

\* atomic_update_entry_status on the entry, at time `now`.
EntryAfter_atomic_update_entry_status(entry, new_status, now) ==
    [entry EXCEPT !.status = new_status,
                  !.updated_at = now,
                  !.status_changed_at = IF entry.status # new_status THEN now ELSE @]

\* process_queue_entry_with_lock, first block: "Mark as processing".
EntryAfter_mark_processing(entry, now) ==
    [entry EXCEPT !.status = "processing", !.updated_at = now]

\* process_queue_entry_with_lock, "Success - verify status".
EntryAfter_success(entry, now) ==
    IF entry.status = "processing"
    THEN [entry EXCEPT !.status = "processed", !.updated_at = now]
    ELSE entry

\* retry_failed, loop body.
EntryAfter_retry_failed(entry, now) ==
    IF entry.status = "failed"
    THEN [entry EXCEPT !.status = "queued", !.updated_at = now]
    ELSE entry

\* retry_failed_entries, loop body: it never touches status_changed_at.
EntryAfter_retry_failed_entries(entry, now, max_retries, retry_delay_base) ==
    LET retried == RetriedEntry([status |-> entry.status,
                                 retry_count |-> entry.retry_count,
                                 next_retry |-> entry.next_retry,
                                 updated_at |-> entry.updated_at],
                                now, max_retries, retry_delay_base)
    IN  [status |-> retried.status, retry_count |-> retried.retry_count,
         next_retry |-> retried.next_retry, updated_at |-> retried.updated_at,
         status_changed_at |-> entry.status_changed_at]

StampInit ==
    /\ stEntry = StampedNewEntry
    /\ stWall = 0
    /\ stEngPc = "idle"
    /\ stRfePc = "idle"
    /\ stRfeNow = 0

\* The wall clock moves on; it never goes back.
Stamp_tick ==
    /\ stWall < MaxWall
    /\ stWall' = stWall + 1
    /\ UNCHANGED <<stEntry, stEngPc, stRfePc, stRfeNow>>
    /\ UNCHANGED frameStamp

\* process_queue_entry_with_lock up to run_action.
Stamp_mark_processing ==
    /\ stEngPc = "idle"
    /\ stEntry.status \notin SkipStatuses
    /\ stEntry' = EntryAfter_mark_processing(stEntry, stWall)
    /\ stEngPc' = "action"
    /\ UNCHANGED <<stWall, stRfePc, stRfeNow>>
    /\ UNCHANGED frameStamp

\* process_queue_entry_with_lock from the return of run_action.
Stamp_outcome ==
    /\ stEngPc = "action"
    /\ \E result \in {"success", "error", "timeout_failed"} :
         stEntry' =
            CASE result = "timeout_failed" ->
                   EntryAfter_atomic_update_entry_status(stEntry, "timeout_failed", stWall)
              [] result = "error" ->
                   EntryAfter_atomic_update_entry_status(stEntry, "failed", stWall)
              [] OTHER -> EntryAfter_success(stEntry, stWall)
    /\ stEngPc' = "idle"
    /\ UNCHANGED <<stWall, stRfePc, stRfeNow>>
    /\ UNCHANGED frameStamp

\* retry_failed in another process: the clock is read inside the block.
Stamp_retry_failed ==
    /\ stEntry.status = "failed"
    /\ stEntry' = EntryAfter_retry_failed(stEntry, stWall)
    /\ UNCHANGED <<stWall, stEngPc, stRfePc, stRfeNow>>
    /\ UNCHANGED frameStamp

\* retry_failed_entries: `now = datetime.now()`, before the FileLock.
Stamp_retry_failed_entries_now ==
    /\ stRfePc = "idle"
    /\ stRfeNow' = stWall
    /\ stRfePc' = "lock"
    /\ UNCHANGED <<stEntry, stWall, stEngPc>>
    /\ UNCHANGED frameStamp

\* retry_failed_entries: the block under the FileLock, with the `now` read
\* before.
Stamp_retry_failed_entries_block ==
    /\ stRfePc = "lock"
    /\ \E base \in RetryDelayBases :
         stEntry' = EntryAfter_retry_failed_entries(stEntry, stRfeNow, MaxRetriesArg, base)
    /\ stRfePc' = "idle"
    /\ stRfeNow' = 0
    /\ UNCHANGED <<stWall, stEngPc>>
    /\ UNCHANGED frameStamp

StampNext ==
    \/ Stamp_tick
    \/ Stamp_mark_processing
    \/ Stamp_outcome
    \/ Stamp_retry_failed
    \/ Stamp_retry_failed_entries_now
    \/ Stamp_retry_failed_entries_block

InitStamps == LockInit /\ PQIdle /\ EngIdle /\ SupIdle /\ QueueIdle /\ StampInit /\ MoreIdle

SpecStamps == InitStamps /\ [][StampNext]_vars

(***************************************************************************)
(* Entry timestamp claims                                                  *)
(***************************************************************************)

\* C18: a write that changes the entry's status sets updated_at and
\* status_changed_at, both to the time of the write; a write that leaves the
\* status the same leaves status_changed_at alone.
C18_StatusChangeStampsBoth ==
    [][/\ stEntry'.status # stEntry.status =>
            /\ stEntry'.updated_at \in {stWall, stRfeNow}
            /\ stEntry'.status_changed_at = stEntry'.updated_at
       /\ stEntry'.status = stEntry.status =>
            stEntry'.status_changed_at = stEntry.status_changed_at]_vars

\* C19: the entry's updated_at never decreases.
C19_UpdatedAtNeverDecreases ==
    [][stEntry'.updated_at >= stEntry.updated_at]_vars

(***************************************************************************)
(* Re-arming of entry_updated rules (SpecEngine)                           *)
(***************************************************************************)

\* The entry_updated loop is at a (rule, key) whose entry is in both
\* snapshots, is not skipped for its status and passes the event test.
UpdatedPredicatesTrue ==
    /\ engPc = "updated"
    /\ state_entries[KeyOrder[engIdx]] # NoEntry
    /\ new_entries[KeyOrder[engIdx]].status \notin {"processing", "failed"}
    /\ EvalUpdated(event_types.entry_updated, state_entries[KeyOrder[engIdx]],
                   new_entries[KeyOrder[engIdx]])

\* C20 (as stated): when the entry's status has changed since the last poll
\* to a status s at which the rule already fired in this session, and the
\* predicates are true, the rule fires again.
C20_RearmsOnReturn ==
    LET key == KeyOrder[engIdx]
        rule_key == UpdatedRules[engRule]
    IN  (/\ UpdatedPredicatesTrue
         /\ new_entries[key].status # state_entries[key].status
         /\ <<key, rule_key, new_entries[key].status>> \in firedSession)
        => UpdatedFires(key, rule_key)

\* C20 (amended): with the predicates true, the rule fires for the entry
\* exactly when it has not fired for it at the entry's present status since
\* the dedup set was last empty (engine start, or the clear above 10,000
\* keys): it re-arms for every other status, and for a status it fired at
\* only after the set was emptied.
C20_RearmsPerStatus ==
    LET key == KeyOrder[engIdx]
        rule_key == UpdatedRules[engRule]
    IN  UpdatedPredicatesTrue =>
          (UpdatedFires(key, rule_key)
             <=> <<key, rule_key, new_entries[key].status>> \notin firedSinceClear)

\* C20 witness: the rule has fired for the entry at one status, the status
\* has changed since the last poll to one the rule has not fired at, and the
\* rule is about to fire again.
C20_Witness ==
    LET key == KeyOrder[engIdx]
        rule_key == UpdatedRules[engRule]
    IN  /\ UpdatedPredicatesTrue
        /\ new_entries[key].status # state_entries[key].status
        /\ \E t \in firedSinceClear :
              /\ Len(t) = 3
              /\ t[1] = key /\ t[2] = rule_key /\ t[3] # new_entries[key].status
        /\ UpdatedFires(key, rule_key)

(***************************************************************************)
(* run_action and run_workflow_steps as engine_loop and                    *)
(* process_queue_entry_with_lock call them.  One rule fires and its action *)
(* runs; every subprocess.run is a step whose outcome the tool decides.    *)
(* An output is [status, data]: data names the tool that printed it, and   *)
(* for the output of a foreach step lists the statuses of its results.     *)
(* A timeout is a number of seconds, 0 when the key is absent (None).      *)
(***************************************************************************)

\* action.get('timeout', 30), rule.get('timeout', 30), timeout=30
DEFAULT_TIMEOUT == 30

TriggerTypes == {"entry_added", "entry_updated", "interval"}

PlainStep(tool, timeout) ==
    [type |-> "tool", tool |-> tool, timeout |-> timeout, items |-> 0, steps |-> <<>>]

\* {"type": "foreach", "array": ..., "steps": [...]} over an array of `items` items
ForeachStep(items, sub_steps, timeout) ==
    [type |-> "foreach", tool |-> "foreach", timeout |-> timeout, items |-> items,
     steps |-> sub_steps]

LeafAction(timeout) == [kind |-> "leaf", tool |-> "leaf", timeout |-> timeout, steps |-> <<>>]
StepsAction(timeout, steps) ==
    [kind |-> "steps", tool |-> "steps", timeout |-> timeout, steps |-> steps]

\* The rules of the model: rule['timeout'] and rule['action'].
RuleTimeouts == {0, 20}
RuleActions ==
    {LeafAction(0), LeafAction(10),
     StepsAction(0, <<PlainStep("s1", 0), PlainStep("s2", 5), PlainStep("s3", 0)>>),
     StepsAction(10, <<PlainStep("s1", 0), PlainStep("s2", 5)>>),
     StepsAction(0, <<PlainStep("s1", 0), ForeachStep(2, <<"u1", "u2">>, 5),
                      PlainStep("s3", 0)>>)}
ActionRules == {[timeout |-> t, action |-> a] : t \in RuleTimeouts, a \in RuleActions}

\* What a tool run by subprocess.run does: it prints JSON with a status, prints
\* text that is not JSON ("completed"), or outlives the timeout.
StepOutcomes == {"success", "error", "timeout_failed", "completed", "TimeoutExpired"}
\* The tool of a leaf action may also print nothing, or fail to start.
LeafOutcomes == StepOutcomes \cup {"silent", "Exception"}

\* previous_output = {}
EmptyOutput == [status |-> "none", data |-> <<>>]

\* json.loads(result.stdout.strip()), or {"status": "completed", "output": ...}
ToolOutput(tool, outcome) == [status |-> outcome, data |-> <<tool>>]

\* {"status": "timeout_failed", "message": f"... timed out after {timeout}s"}
TimeoutResult == [status |-> "timeout_failed", data |-> <<"TimeoutExpired">>]

\* {"results": foreach_results, "processed_count": len(foreach_results)}
ForeachOutput(item_results) ==
    [status |-> "none",
     data |-> [k \in 1 .. Len(item_results) |-> item_results[k].status]]

\* The timeout argument of the call of run_action: process_queue_entry_with_lock
\* passes rule.get('timeout', 30), the other call sites of engine_loop pass none.
TimeoutArg(trigger, rule) ==
    IF trigger = "entry_added"
    THEN IF rule.timeout # 0 THEN rule.timeout ELSE DEFAULT_TIMEOUT
    ELSE 0

\* The rule_id argument of the call of run_action: no call site passes one.
RuleIdArg(trigger) == "none"

\* action_timeout = timeout or action.get('timeout', 30)
action_timeout(timeout, action) ==
    IF timeout # 0 THEN timeout
    ELSE IF action.timeout # 0 THEN action.timeout ELSE DEFAULT_TIMEOUT

\* step_timeout = step.get('timeout', timeout)
step_timeout(step, timeout) == IF step.timeout # 0 THEN step.timeout ELSE timeout

StepFails_errorOnly(step_output) == step_output.status = "error"

\* if step_output.get("status") == "error": return step_output
\* if step_output.get("status") == "timeout_failed": return step_output
StepFails(step_output) == step_output.status \in {"error", "timeout_failed"}

\* if rule_id: log_execution_history(rule_id, ..., result, duration_ms)
HistoryAfter(history, rule_id, result) ==
    IF rule_id # "none" THEN Append(history, result) ELSE history

\* The result run_action returns for a leaf action, by what the tool did.
LeafResult(outcome) ==
    CASE outcome = "TimeoutExpired" -> TimeoutResult
      [] outcome = "Exception" -> [status |-> "error", data |-> <<"Exception">>]
      [] outcome \in {"silent", "completed"} -> EmptyOutput
      [] OTHER -> ToolOutput("leaf", outcome)

\* The result run_action logs for a leaf action; "none" where it logs nothing.
LeafLogged(outcome) ==
    CASE outcome = "TimeoutExpired" -> "timeout_failed"
      [] outcome = "Exception" -> "none"
      [] outcome = "error" -> "failed"
      [] OTHER -> "success"

ActInit ==
    /\ aPc = "idle"
    /\ aRule = [timeout |-> 0, action |-> LeafAction(0)]
    /\ aTrig = "entry_added"
    /\ aTimeout = 0
    /\ aStep = 1
    /\ aItem = 1
    /\ aSub = 1
    /\ previous_output = EmptyOutput
    /\ item_prev = EmptyOutput
    /\ foreach_results = <<>>
    /\ aCalls = <<>>
    /\ aOutputs = <<>>
    /\ aResult = EmptyOutput
    /\ aLogged = <<>>

\* engine_loop fires a rule: run_action(rule["action"], context, ...) up to
\* its first subprocess.run.
Act_start(rule, trigger) ==
    /\ aPc = "idle"
    /\ aRule' = rule
    /\ aTrig' = trigger
    /\ aTimeout' = action_timeout(TimeoutArg(trigger, rule), rule.action)
    /\ aPc' = IF rule.action.kind = "steps" THEN "steps" ELSE "leaf"
    /\ UNCHANGED <<aStep, aItem, aSub, previous_output, item_prev, foreach_results,
                   aCalls, aOutputs, aResult, aLogged>>
    /\ UNCHANGED frameAct

\* run_action, leaf action: subprocess.run(cmd, timeout=action_timeout), the
\* history record, and the return.
Leaf_invoke(outcome) ==
    /\ aPc = "leaf"
    /\ aCalls' = Append(aCalls, [step |-> 0, item |-> 0, tool |-> "leaf",
                                 prev |-> EmptyOutput, timeout |-> aTimeout,
                                 out |-> LeafResult(outcome)])
    /\ aLogged' = IF LeafLogged(outcome) = "none" THEN aLogged
                  ELSE HistoryAfter(aLogged, RuleIdArg(aTrig), LeafLogged(outcome))
    /\ aResult' = LeafResult(outcome)
    /\ aPc' = "done"
    /\ UNCHANGED <<aRule, aTrig, aTimeout, aStep, aItem, aSub, previous_output,
                   item_prev, foreach_results, aOutputs>>
    /\ UNCHANGED frameAct

\* run_workflow_steps after step i has left `output`: the next step, or the
\* return of previous_output after the last one.
StepDone(output) ==
    /\ previous_output' = output
    /\ aOutputs' = Append(aOutputs, output)
    /\ aItem' = 1
    /\ aSub' = 1
    /\ item_prev' = output
    /\ foreach_results' = <<>>
    /\ IF aStep < Len(aRule.action.steps)
       THEN /\ aStep' = aStep + 1
            /\ UNCHANGED <<aPc, aResult>>
       ELSE /\ aPc' = "done"
            /\ aResult' = output
            /\ UNCHANGED aStep

\* run_workflow_steps returns `result` from inside the loop.
StepReturn(result) ==
    /\ aPc' = "done"
    /\ aResult' = result
    /\ aOutputs' = Append(aOutputs, result)
    /\ UNCHANGED <<aStep, aItem, aSub, previous_output, item_prev, foreach_results>>

\* run_workflow_steps, a plain step: step_context['prev'] = previous_output,
\* subprocess.run(cmd, timeout=step_timeout), and the checks on its output.
Step_invoke(outcome) ==
    LET step == aRule.action.steps[aStep]
        step_output == ToolOutput(step.tool, outcome)
        out == IF outcome = "TimeoutExpired" THEN TimeoutResult ELSE step_output
    IN  /\ aPc = "steps"
        /\ step.type = "tool"
        /\ aCalls' = Append(aCalls, [step |-> aStep, item |-> 0, tool |-> step.tool,
                                     prev |-> previous_output,
                                     timeout |-> step_timeout(step, aTimeout),
                                     out |-> out])
        /\ IF outcome = "TimeoutExpired"
           THEN StepReturn(TimeoutResult)
           ELSE IF StepFails(step_output)
                THEN StepReturn(step_output)
                ELSE StepDone(step_output)
        /\ UNCHANGED <<aRule, aTrig, aTimeout, aLogged>>
        /\ UNCHANGED frameAct

\* run_workflow_steps, a foreach step: one sub-step of one item.  The item
\* context starts as a copy of the step context; item_context['prev'] is the
\* output of the item's previous sub-step; nothing looks at the status of a
\* sub-step's output; after the last sub-step the item's result is appended,
\* and after the last item the step's output is the list of results.
Foreach_invoke(outcome) ==
    LET step == aRule.action.steps[aStep]
        sub_output == ToolOutput(step.steps[aSub], outcome)
        out == IF outcome = "TimeoutExpired" THEN TimeoutResult ELSE sub_output
        appended == Append(foreach_results, sub_output)
    IN  /\ aPc = "steps"
        /\ step.type = "foreach"
        /\ aCalls' = Append(aCalls, [step |-> aStep, item |-> aItem,
                                     tool |-> step.steps[aSub],
                                     prev |-> item_prev,
                                     timeout |-> step_timeout(step, aTimeout),
                                     out |-> out])
        /\ IF outcome = "TimeoutExpired"
           THEN StepReturn(TimeoutResult)
           ELSE IF aSub < Len(step.steps)
                THEN /\ aSub' = aSub + 1
                     /\ item_prev' = sub_output
                     /\ UNCHANGED <<aPc, aResult, aOutputs, aStep, aItem,
                                    previous_output, foreach_results>>
                ELSE IF aItem < step.items
                     THEN /\ aItem' = aItem + 1
                          /\ aSub' = 1
                          /\ item_prev' = previous_output
                          /\ foreach_results' = appended
                          /\ UNCHANGED <<aPc, aResult, aOutputs, aStep, previous_output>>
                     ELSE StepDone(ForeachOutput(appended))
        /\ UNCHANGED <<aRule, aTrig, aTimeout, aLogged>>
        /\ UNCHANGED frameAct

ActNext ==
    \/ \E rule \in ActionRules, trigger \in TriggerTypes : Act_start(rule, trigger)
    \/ \E outcome \in LeafOutcomes : Leaf_invoke(outcome)
    \/ \E outcome \in StepOutcomes : Step_invoke(outcome)
    \/ \E outcome \in StepOutcomes : Foreach_invoke(outcome)

\* The machines of the first part of the module at rest.
OldIdle == LockInit /\ PQIdle /\ EngIdle /\ SupIdle /\ QueueIdle /\ StampIdle

\* Every machine defined above is idle.
PrevIdle == OldIdle /\ ActIdle /\ LoopIdle /\ IvIdle /\ RetryIdle /\ SpawnIdle

InitAction == OldIdle /\ ActInit /\ LoopIdle /\ IvIdle /\ RetryIdle /\ SpawnIdle /\ LateIdle

SpecAction == InitAction /\ [][ActNext]_vars

(***************************************************************************)
(* Claims on run_action and run_workflow_steps                             *)
(***************************************************************************)

\* C21: every action the engine loop executes for a rule appends exactly one
\* ExecutionHistory record for its terminal outcome, and an action that
\* timed out appends a record with result timeout_failed.
C21_OneHistoryRecordPerAction ==
    aPc = "done" =>
        /\ Len(aLogged) = 1
        /\ aCalls[Len(aCalls)].out = TimeoutResult => aLogged[1] = "timeout_failed"

\* The calls of subprocess.run for the plain steps of the workflow.
PlainCalls == {k \in 1 .. Len(aCalls) : aCalls[k].step > 0 /\ aCalls[k].item = 0}

\* C23: in a multi-step workflow the steps run in list order, each at most
\* once and none skipped; step i+1 sees the output of step i under prev (the
\* first step sees {}); and once a step returns status error or
\* timeout_failed, or times out, no later step is invoked and the workflow's
\* result is that failure.
C23_StepsInOrderPrevThreadedStopAtFailure ==
    aPc \in {"steps", "done"} /\ aRule.action.kind = "steps" =>
        /\ \A k, l \in 1 .. Len(aCalls) : k < l => aCalls[k].step <= aCalls[l].step
        /\ \A k, l \in PlainCalls : aCalls[k].step = aCalls[l].step => k = l
        /\ \A i \in 1 .. Len(aOutputs) : \E k \in 1 .. Len(aCalls) : aCalls[k].step = i
        /\ \A k \in 1 .. Len(aCalls) : aCalls[k].step <= Len(aOutputs) + 1
        /\ \A k \in PlainCalls :
             LET i == aCalls[k].step
             IN  /\ aCalls[k].tool = aRule.action.steps[i].tool
                 /\ aCalls[k].prev = IF i = 1 THEN EmptyOutput ELSE aOutputs[i - 1]
                 /\ aOutputs[i] = aCalls[k].out
                 /\ aCalls[k].out.status \in {"error", "timeout_failed"} =>
                      /\ k = Len(aCalls)
                      /\ aPc = "done"
                      /\ aResult = aCalls[k].out

\* C23 witness: a workflow of three steps whose second step, having seen the
\* output of the first under prev, returned status error, and which ended
\* there with that output as its result.
C23_Witness ==
    /\ aPc = "done"
    /\ aRule.action.kind = "steps"
    /\ Len(aRule.action.steps) = 3
    /\ Len(aCalls) = 2
    /\ aCalls[1].out.status = "success"
    /\ aCalls[2].prev = aCalls[1].out
    /\ aCalls[2].out.status = "error"
    /\ aResult = aCalls[2].out

\* C24: in a foreach step, as soon as a sub-step for any item returns status
\* error or times out, no further sub-step or item is executed, no later
\* workflow step is invoked, and the workflow returns a failure (status
\* error or timeout_failed).
C24_ForeachStopsAtFailure ==
    \A k \in 1 .. Len(aCalls) :
        (/\ aCalls[k].item > 0
         /\ aCalls[k].out.status = "error" \/ aCalls[k].out = TimeoutResult) =>
            /\ k = Len(aCalls)
            /\ aPc = "done"
            /\ aResult.status \in {"error", "timeout_failed"}

\* The timeout the precedence of C25 gives: the step's or leaf action's own,
\* else the rule's, else 30 seconds.
TimeoutByPrecedence(own, rule) ==
    IF own # 0 THEN own ELSE IF rule.timeout # 0 THEN rule.timeout ELSE DEFAULT_TIMEOUT

\* C25: the timeout of every tool invocation is the step's or leaf action's
\* own timeout if it has one, otherwise the rule's if it has one, otherwise
\* 30 seconds, through process_queue_entry_with_lock and through run_action.
C25_TimeoutPrecedence ==
    \A k \in 1 .. Len(aCalls) :
        LET own == IF aCalls[k].step = 0 THEN aRule.action.timeout
                   ELSE aRule.action.steps[aCalls[k].step].timeout
        IN  aCalls[k].timeout = TimeoutByPrecedence(own, aRule)

(***************************************************************************)
(* The control flow of engine_loop over one entry file with one entry and  *)
(* one rule of each trigger type, with the faults an iteration can meet:   *)
(* an entry file that does not parse (write_json truncates the file and    *)
(* then writes it, so a reader can find it half written), a lock on the    *)
(* entry file that another process holds longer than FileLock waits, a     *)
(* predicate that raises, and a tool that fails or times out.              *)
(***************************************************************************)

\* Poll iterations in a run of the model.
MaxPolls == 2

PredicateOutcomes == {"true", "false", "raises"}
ActionResults == {"success", "error", "timeout_failed"}

LoopInit ==
    /\ lpPc = "sleep"
    /\ lpPolls = 0
    /\ lpFileOk = TRUE
    /\ lpLockFree = TRUE
    /\ lpStatus = "queued"
    /\ lpResult = "none"
    /\ lpFaults = {}

\* Another process is inside write_json(file_path, data), or has finished it.
Loop_file_writer ==
    /\ lpPc # "crashed"
    /\ lpFileOk' = ~lpFileOk
    /\ UNCHANGED <<lpPc, lpPolls, lpLockFree, lpStatus, lpResult, lpFaults>>
    /\ UNCHANGED frameLoop

\* Another process takes the FileLock of the entry file and keeps it, or
\* releases it.
Loop_lock_holder ==
    /\ lpPc # "crashed"
    /\ lpLockFree' = ~lpLockFree
    /\ UNCHANGED <<lpPc, lpPolls, lpFileOk, lpStatus, lpResult, lpFaults>>
    /\ UNCHANGED frameLoop

\* while True: rules_data = read_json(RULES_FILE) and the grouping of the
\* rules by file.
Loop_top ==
    /\ lpPc = "sleep"
    /\ lpPolls < MaxPolls
    /\ lpPc' = "file"
    /\ UNCHANGED <<lpPolls, lpFileOk, lpLockFree, lpStatus, lpResult, lpFaults>>
    /\ UNCHANGED frameLoop

\* new_data = read_json(file_path): json.load raises JSONDecodeError on a file
\* that does not parse, and nothing in engine_loop catches it.
Loop_read_file ==
    /\ lpPc = "file"
    /\ IF lpFileOk
       THEN lpPc' = "added" /\ UNCHANGED lpFaults
       ELSE lpPc' = "crashed" /\ lpFaults' = lpFaults \cup {"json"}
    /\ UNCHANGED <<lpPolls, lpFileOk, lpLockFree, lpStatus, lpResult>>
    /\ UNCHANGED frameLoop

\* The entry_added rule on the entry: the status filter, eval(test_expr) in
\* try/except, then process_queue_entry_with_lock up to the call of
\* run_action: `with FileLock(file_path)` raises TimeoutError when the lock
\* stays taken, outside every try; under the lock an entry in one of the
\* skip statuses is left alone, any other is marked processing.
Loop_added_mark(test) ==
    /\ lpPc = "added"
    /\ IF lpStatus \in {"processed", "processing", "failed"} \/ test # "true"
       THEN /\ lpPc' = "updated"
            /\ lpFaults' = IF test = "raises" /\ lpStatus \notin {"processed", "processing", "failed"}
                           THEN lpFaults \cup {"predicate"} ELSE lpFaults
            /\ UNCHANGED lpStatus
       ELSE IF ~lpLockFree
            THEN /\ lpPc' = "crashed"
                 /\ lpFaults' = lpFaults \cup {"lock"}
                 /\ UNCHANGED lpStatus
            ELSE /\ lpPc' = IF lpStatus \in SkipStatuses THEN "updated" ELSE "action"
                 /\ lpStatus' = IF lpStatus \in SkipStatuses THEN lpStatus ELSE "processing"
                 /\ UNCHANGED lpFaults
    /\ UNCHANGED <<lpPolls, lpFileOk, lpLockFree, lpResult>>
    /\ UNCHANGED frameLoop

\* run_action inside process_queue_entry_with_lock: it catches every
\* exception and returns a result.
Loop_added_action(result) ==
    /\ lpPc = "action"
    /\ lpPc' = "outcome"
    /\ lpResult' = result
    /\ lpFaults' = IF result = "success" THEN lpFaults ELSE lpFaults \cup {"tool"}
    /\ UNCHANGED <<lpPolls, lpFileOk, lpLockFree, lpStatus>>
    /\ UNCHANGED frameLoop

\* process_queue_entry_with_lock after run_action: the write of the outcome
\* under FileLock.  A TimeoutError of the lock is raised inside the try, and
\* the handler calls atomic_update_entry_status, which takes the same lock
\* and raises again, out of the function and out of engine_loop.
Loop_added_outcome ==
    /\ lpPc = "outcome"
    /\ IF ~lpLockFree
       THEN /\ lpPc' = "crashed"
            /\ lpFaults' = lpFaults \cup {"lock"}
            /\ UNCHANGED lpStatus
       ELSE /\ lpPc' = "updated"
            /\ lpStatus' = CASE lpResult = "timeout_failed" -> "timeout_failed"
                             [] lpResult = "error" -> "failed"
                             [] OTHER -> IF lpStatus = "processing" THEN "processed"
                                         ELSE lpStatus
            /\ UNCHANGED lpFaults
    /\ lpResult' = "none"
    /\ UNCHANGED <<lpPolls, lpFileOk, lpLockFree>>
    /\ UNCHANGED frameLoop

\* The entry_updated rule on the entry: eval(test_expr) in try/except, then
\* run_action, whose result is dropped.
Loop_updated(test, result) ==
    /\ lpPc = "updated"
    /\ lpPc' = "rules"
    /\ lpFaults' = IF lpStatus \in {"processing", "failed"} THEN lpFaults
                   ELSE IF test = "raises" THEN lpFaults \cup {"predicate"}
                   ELSE IF test = "true" /\ result # "success" THEN lpFaults \cup {"tool"}
                   ELSE lpFaults
    /\ UNCHANGED <<lpPolls, lpFileOk, lpLockFree, lpStatus, lpResult>>
    /\ UNCHANGED frameLoop

\* The time and interval rules, write_json(STATE_FILE, state), time.sleep(5).
Loop_rules(result) ==
    /\ lpPc = "rules"
    /\ lpPc' = "sleep"
    /\ lpPolls' = lpPolls + 1
    /\ lpFaults' = IF result = "success" THEN lpFaults ELSE lpFaults \cup {"tool"}
    /\ UNCHANGED <<lpFileOk, lpLockFree, lpStatus, lpResult>>
    /\ UNCHANGED frameLoop

LoopNext ==
    \/ Loop_file_writer
    \/ Loop_lock_holder
    \/ Loop_top
    \/ Loop_read_file
    \/ \E test \in PredicateOutcomes : Loop_added_mark(test)
    \/ \E result \in ActionResults : Loop_added_action(result)
    \/ Loop_added_outcome
    \/ \E test \in PredicateOutcomes, result \in ActionResults : Loop_updated(test, result)
    \/ \E result \in ActionResults : Loop_rules(result)

InitLoop == OldIdle /\ ActIdle /\ LoopInit /\ IvIdle /\ RetryIdle /\ SpawnIdle /\ LateIdle

SpecLoop == InitLoop /\ [][LoopNext]_vars

\* C22: the engine loop always reaches its next poll iteration: no tool error
\* or timeout, no predicate that raises, no entry file that fails to parse
\* and no lock timeout inside process_queue_entry_with_lock terminates
\* engine_loop.
C22_LoopNeverTerminates == lpPc # "crashed"

MaxIvNow == 6

\* interval_minutes = trigger.get('minutes', 5)
DEFAULT_INTERVAL_MINUTES == 5

\* state.get('interval_executions', {}).get(rule_key) is None
NoExecution == -1

\* The interval rules of the model and their trigger.minutes, 0 when absent.
IntervalRules == {"every2", "plain"}
TriggerMinutes(rule_key) == IF rule_key = "every2" THEN 2 ELSE 0

\* Minutes the action of a rule takes.
ActionMinutes == {0, 1}

interval_minutes(rule_key) ==
    IF TriggerMinutes(rule_key) # 0 THEN TriggerMinutes(rule_key)
    ELSE DEFAULT_INTERVAL_MINUTES

should_run_gt(last_execution, now, minutes) ==
    last_execution = NoExecution \/ now - last_execution > minutes

\* should_run: last_execution is None, or minutes_passed >= interval_minutes
should_run(last_execution, now, minutes) ==
    last_execution = NoExecution \/ now - last_execution >= minutes

IvInit ==
    /\ ivNow = 0
    /\ interval_executions = [r \in IntervalRules |-> NoExecution]
    /\ ivEnabled = [r \in IntervalRules |-> TRUE]
    /\ ivPolled = [rule |-> "none", fired |-> FALSE, at |-> 0]
    /\ ivFired = [r \in IntervalRules |-> <<>>]

Iv_tick ==
    /\ ivNow < MaxIvNow
    /\ ivNow' = ivNow + 1
    /\ UNCHANGED <<interval_executions, ivEnabled, ivPolled, ivFired>>
    /\ UNCHANGED frameIv

\* toggle_rule_enabled in another process.
Iv_toggle(rule_key) ==
    /\ ivEnabled' = [ivEnabled EXCEPT ![rule_key] = ~ivEnabled[rule_key]]
    /\ UNCHANGED <<ivNow, interval_executions, ivPolled, ivFired>>
    /\ UNCHANGED frameIv

\* engine_loop, the branch `elif trig_type == 'interval'` for one enabled rule
\* in one poll iteration; the action takes `took` minutes, and
\* state['interval_executions'][rule_key] = datetime.now() comes after it.
Iv_poll(rule_key, took) ==
    /\ ivEnabled[rule_key]
    /\ IF should_run(interval_executions[rule_key], ivNow, interval_minutes(rule_key))
       THEN /\ ivNow + took <= MaxIvNow
            /\ ivNow' = ivNow + took
            /\ interval_executions' = [interval_executions EXCEPT ![rule_key] = ivNow']
            /\ ivPolled' = [rule |-> rule_key, fired |-> TRUE, at |-> ivNow]
            /\ ivFired' = [ivFired EXCEPT ![rule_key] = Append(@, ivNow)]
       ELSE /\ took = 0
            /\ ivPolled' = [rule |-> rule_key, fired |-> FALSE, at |-> ivNow]
            /\ UNCHANGED <<ivNow, interval_executions, ivFired>>
    /\ UNCHANGED ivEnabled
    /\ UNCHANGED frameIv

IvNext ==
    \/ Iv_tick
    \/ \E r \in IntervalRules : Iv_toggle(r)
    \/ \E r \in IntervalRules, took \in ActionMinutes : Iv_poll(r, took)

InitInterval == OldIdle /\ ActIdle /\ LoopIdle /\ IvInit /\ RetryIdle /\ SpawnIdle /\ LateIdle

SpecInterval == InitInterval /\ [][IvNext]_vars

\* C27: in each poll iteration an enabled interval rule fires if and only if
\* it has no recorded execution time or at least trigger.minutes have passed
\* since the recorded time; after firing the recorded time is the current
\* time; and two consecutive firings of a rule are at least trigger.minutes
\* apart.
C27_IntervalFiresWhenDue ==
    [][\A r \in IntervalRules :
         (\E took \in ActionMinutes : Iv_poll(r, took)) =>
            /\ ivPolled'.fired <=>
                 \/ interval_executions[r] = NoExecution
                 \/ ivNow - interval_executions[r] >= interval_minutes(r)
            /\ ivPolled'.fired => interval_executions'[r] = ivNow'
            /\ \A k \in 2 .. Len(ivFired'[r]) :
                 ivFired'[r][k] - ivFired'[r][k - 1] >= interval_minutes(r)]_vars

\* C27 witness: the rule with trigger.minutes = 2 has fired twice, the second
\* time exactly two minutes after the first, and a later poll of it did not
\* fire.
C27_Witness ==
    /\ Len(ivFired["every2"]) = 2
    /\ ivFired["every2"][2] - ivFired["every2"][1] = 2
    /\ ivPolled = [rule |-> "every2", fired |-> FALSE, at |-> ivFired["every2"][2] + 1]

(***************************************************************************)
(* The retry schedule: one entry of an entry file, retry_failed_entries    *)
(* called with its default max_retries and retry_delay_base, and an engine *)
(* under which the entry fails again after every retry.  Time is in        *)
(* minutes.                                                                *)
(***************************************************************************)

\* The latest time of a run of the model.
MaxRetryNow == 21

\* max_retries = params.get('max_retries', 3)
DEFAULT_MAX_RETRIES == 3

\* retry_delay_base = params.get('retry_delay_base', 5)
DEFAULT_RETRY_DELAY_BASE == 5

\* Minutes by which time advances in one step.
RetryTicks == {1, 5}

RetryInit ==
    /\ rtNow = 0
    /\ rtEntry = [status |-> "failed", retry_count |-> 0, next_retry |-> 0, updated_at |-> 0]
    /\ rtRetriedAt = <<>>
    /\ rtSkippedAt = {}

Retry_tick(d) ==
    /\ rtNow + d <= MaxRetryNow
    /\ rtNow' = rtNow + d
    /\ UNCHANGED <<rtEntry, rtRetriedAt, rtSkippedAt>>
    /\ UNCHANGED frameRetry

\* The engine picks the queued entry up and its action fails or times out:
\* atomic_update_entry_status(file_path, key, 'failed' / 'timeout_failed', ...)
Retry_fails_again(status) ==
    /\ rtEntry.status = "queued"
    /\ rtEntry' = [rtEntry EXCEPT !.status = status, !.updated_at = rtNow]
    /\ UNCHANGED <<rtNow, rtRetriedAt, rtSkippedAt>>
    /\ UNCHANGED frameRetry

\* retry_failed_entries({"file": ...}): one call, with the defaults.
Retry_call ==
    LET after == RetriedEntry(rtEntry, rtNow, DEFAULT_MAX_RETRIES, DEFAULT_RETRY_DELAY_BASE)
    IN  /\ rtEntry.status \in {"failed", "timeout_failed"}
        /\ rtEntry' = after
        /\ rtRetriedAt' = IF after.status = "queued" THEN Append(rtRetriedAt, rtNow)
                          ELSE rtRetriedAt
        /\ rtSkippedAt' = IF after = rtEntry THEN rtSkippedAt \cup {rtEntry.retry_count}
                          ELSE rtSkippedAt
        /\ UNCHANGED rtNow
        /\ UNCHANGED frameRetry

RetryNext ==
    \/ \E d \in RetryTicks : Retry_tick(d)
    \/ \E status \in {"failed", "timeout_failed"} : Retry_fails_again(status)
    \/ Retry_call

InitRetry == OldIdle /\ ActIdle /\ LoopIdle /\ IvIdle /\ RetryInit /\ SpawnIdle /\ LateIdle

SpecRetry == InitRetry /\ [][RetryNext]_vars

\* C28: with max_retries = 3 and retry_delay_base = 5 minutes, for an entry
\* that fails again after each retry, the k-th successful retry_failed_entries
\* call (k = 1, 2, 3) sets status queued, retry_count = k and next_retry =
\* now + 5, 15, 45 minutes; a call made while now < next_retry leaves the
\* entry unchanged; and the call after the third retry sets
\* permanently_failed.
C28_RetrySchedule ==
    [][Retry_call =>
         LET k == rtEntry.retry_count + 1
         IN  IF rtEntry.retry_count = 3
             THEN rtEntry'.status = "permanently_failed"
             ELSE IF rtEntry.next_retry # 0 /\ rtNow < rtEntry.next_retry
             THEN rtEntry' = rtEntry
             ELSE /\ k \in 1 .. 3
                  /\ rtEntry'.status = "queued"
                  /\ rtEntry'.retry_count = k
                  /\ rtEntry'.next_retry = rtNow + <<5, 15, 45>>[k]]_vars

\* C28 witness: the entry was retried at 0, 5 and 20 minutes, a call before
\* each of the later two was too early and left it alone, and the call after
\* the third retry has set permanently_failed.
C28_Witness ==
    /\ rtRetriedAt = <<0, 5, 20>>
    /\ rtSkippedAt = {1, 2}
    /\ rtEntry.status = "permanently_failed"
    /\ rtEntry.retry_count = 3
    /\ rtEntry.next_retry = 65

(***************************************************************************)
(* The supervisor's commands run one after the other, each as one step     *)
(* from its call to its return, in a process whose environment holds the   *)
(* nesting sentinel CLAUDECODE with some value or not at all.  The         *)
(* commands work on the queue, the lockfile and the workers of the         *)
(* supervisor above.                                                       *)
(***************************************************************************)

\* os.environ.get("CLAUDECODE") of the process a command runs in: the
\* variable is not in the environment, is there with the empty string, or
\* is there with "1" (what a worker's environment holds).
SentinelValues == {"unset", "empty", "1"}

\* if os.environ.get("CLAUDECODE"):
SentinelSet(value) == value = "1"

BaseEnv_keep(value) == value

\* base_env = os.environ.copy(); base_env.pop('CLAUDECODE', None)
BaseEnv(value) == "unset"

\* The arguments the commands are called with.
SpawnParallelArgs == {0, 2, 5}

NoCall == [op |-> "none", parallel |-> 1, sentinel |-> "unset", spawned |-> {}]

\* The tasks of a queue with status queued.
QueuedIn(queue_tasks) == {t \in TaskIds : queue_tasks[t] # NoTask}

\* The queue after batch_assign_tasks has assigned `batch` with `par` agents.
QueueAfterBatch(queue_tasks, batch, par) ==
    LET agent(i) == IF par > 1 THEN AgentOrder[((i - 1) % par) + 1] ELSE "none"
    IN  [t \in TaskIds |->
           IF \E i \in 1 .. Len(batch) : batch[i] = t
           THEN agent(CHOOSE i \in 1 .. Len(batch) : batch[i] = t)
           ELSE queue_tasks[t]]

\* execute_queue(params) after the CLAUDECODE check, on a queue file holding
\* queue_tasks: the status it returns, the lockfile it leaves and the pids
\* of the workers it spawns.
ExecuteQueueBody(queue_tasks, p) ==
    LET par == ClampParallel(p)
        age_minutes == supNow - lockfile.created_at
        any_alive == \E w \in lockfile.pids : Alive(w)
        agent_tasks == {Bucket(queue_tasks[t]) : t \in QueuedIn(queue_tasks)}
        n == IF par > 1 THEN Cardinality(LimitAgents(agent_tasks)) ELSE 1
    IN  IF ~enforce_agent_limit
        THEN [status |-> "blocked", lockfile |-> lockfile, pids |-> {}]
        ELSE IF lockfile.exists /\ ~LockIsStale(age_minutes) /\ any_alive
        THEN [status |-> "already_running", lockfile |-> lockfile, pids |-> {}]
        ELSE IF QueuedIn(queue_tasks) = {}
        THEN [status |-> "success", lockfile |-> NoLock, pids |-> {}]
        ELSE [status |-> "task_started", lockfile |-> NewLockfile(supNow, FreshPids(n)),
              pids |-> FreshPids(n)]

\* The effect of a call of execute_queue from a process whose environment
\* holds the sentinel with `env`.
RunExecuteQueue(queue_tasks, p, env) ==
    LET out == ExecuteQueueBody(queue_tasks, p)
    IN  /\ \A w \in out.pids : w <= MaxPid
        /\ supResult' = out.status
        /\ lockfile' = out.lockfile
        /\ workers' = [w \in Pids |-> IF w \in out.pids THEN "alive" ELSE workers[w]]
        /\ spWorkerEnv' = [w \in Pids |-> IF w \in out.pids THEN BaseEnv(env)
                                          ELSE spWorkerEnv[w]]

SpawnInit ==
    /\ spCall = NoCall
    /\ spWorkerEnv = [w \in Pids |-> "unborn"]

\* Time passes until a lockfile written before is older than 30 minutes.
Spawn_tick ==
    /\ supNow + STALE_LOCK_MINUTES + 1 <= MaxNow
    /\ supNow' = supNow + STALE_LOCK_MINUTES + 1
    /\ UNCHANGED <<lockfile, tasks, workers, supResult, spCall, spWorkerEnv>>
    /\ UNCHANGED frameSpawn

Spawn_worker_exit(w) ==
    /\ Alive(w)
    /\ workers' = [workers EXCEPT ![w] = "dead"]
    /\ UNCHANGED <<supNow, lockfile, tasks, supResult, spCall, spWorkerEnv>>
    /\ UNCHANGED frameSpawn

\* execute_queue({"parallel": p}), called as a command.
Spawn_execute_queue(p, env) ==
    /\ IF SentinelSet(env)
       THEN /\ supResult' = "error"
            /\ UNCHANGED <<lockfile, workers, spWorkerEnv>>
       ELSE RunExecuteQueue(tasks, p, env)
    /\ spCall' = [op |-> "execute_queue", parallel |-> p, sentinel |-> env,
                  spawned |-> {w \in Pids : workers[w] = "unborn" /\ workers'[w] = "alive"}]
    /\ UNCHANGED <<supNow, tasks>>
    /\ UNCHANGED frameSpawn

\* assign_task(params): the task is written to the queue, then
\* `if auto_execute and not os.environ.get("CLAUDECODE"): execute_queue({})`.
Spawn_assign_task(arg, auto_execute, env) ==
    /\ tasks' = [tasks EXCEPT ![arg[1]] = arg[2]]
    /\ IF auto_execute /\ ~SentinelSet(env)
       THEN RunExecuteQueue(tasks', 1, env)
       ELSE UNCHANGED <<supResult, lockfile, workers, spWorkerEnv>>
    /\ spCall' = [op |-> "assign_task", parallel |-> 1, sentinel |-> env,
                  spawned |-> {w \in Pids : workers[w] = "unborn" /\ workers'[w] = "alive"}]
    /\ UNCHANGED supNow
    /\ UNCHANGED frameSpawn

\* batch_assign_tasks(params): every task is assigned with auto_execute
\* False, then `if success_count > 0 and not os.environ.get("CLAUDECODE"):
\* execute_queue({"parallel": parallel})`.
Spawn_batch_assign_tasks(batch, p, env) ==
    /\ tasks' = QueueAfterBatch(tasks, batch, ClampParallel(p))
    /\ IF ~SentinelSet(env)
       THEN RunExecuteQueue(tasks', ClampParallel(p), env)
       ELSE UNCHANGED <<supResult, lockfile, workers, spWorkerEnv>>
    /\ spCall' = [op |-> "batch_assign_tasks", parallel |-> p, sentinel |-> env,
                  spawned |-> {w \in Pids : workers[w] = "unborn" /\ workers'[w] = "alive"}]
    /\ UNCHANGED supNow
    /\ UNCHANGED frameSpawn

SpawnNext ==
    \/ Spawn_tick
    \/ \E w \in Pids : Spawn_worker_exit(w)
    \/ \E p \in SpawnParallelArgs, env \in SentinelValues : Spawn_execute_queue(p, env)
    \/ \E arg \in AssignArgs, auto_execute \in BOOLEAN, env \in SentinelValues :
         Spawn_assign_task(arg, auto_execute, env)
    \/ \E batch \in BatchArgs, p \in SpawnParallelArgs, env \in SentinelValues :
         Spawn_batch_assign_tasks(batch, p, env)

InitSpawn ==
    LockInit /\ PQIdle /\ EngIdle /\ SupInit /\ QueueIdle /\ StampIdle
    /\ ActIdle /\ LoopIdle /\ IvIdle /\ RetryIdle /\ SpawnInit /\ LateIdle

SpecSpawn == InitSpawn /\ [][SpawnNext]_vars

\* C29: a single execute_queue call with argument parallel = p spawns at most
\* min(max(p, 1), 3) worker processes, whatever the queue holds.
C29_SpawnsAtMostParallel ==
    spCall.op = "execute_queue" =>
        LET lo == IF spCall.parallel > 1 THEN spCall.parallel ELSE 1
            cap == IF lo < 3 THEN lo ELSE 3
        IN  Cardinality(spCall.spawned) <= cap

MaxXtNow == 4

\* task_started_at = None, task_created_at = None, task_processing_started_at = None
NoTimestamp == 0

\* The values of params.get("execution_time_seconds", 0).
ExecutionTimeArgs == {0, 7}

NoTimedTask == [present |-> FALSE, status |-> "absent", created_at |-> NoTimestamp,
                started_at |-> NoTimestamp, processing_started_at |-> NoTimestamp]

NoTimedResult == [present |-> FALSE, status |-> "absent", execution_time_seconds |-> 0,
                  started_at |-> NoTimestamp, processing_started_at |-> NoTimestamp]

\* task_entry of assign_task: created_at and started_at are both `now`.
TimedTaskEntry(now) ==
    [present |-> TRUE, status |-> "queued", created_at |-> now, started_at |-> now,
     processing_started_at |-> NoTimestamp]

\* The stub mark_task_in_progress writes to the results file.
ResultStub(started_at, now) ==
    [present |-> TRUE, status |-> "in_progress", execution_time_seconds |-> 0,
     started_at |-> started_at, processing_started_at |-> now]

\* `a or b` on two timestamps.
OrElse(a, b) == IF a # NoTimestamp THEN a ELSE b

\* The timestamps log_task_completion holds after it has read the queue
\* entry and, if execution_time == 0 and the entry gave no
\* processing_started_at, the record of the task in the results file.
TimestampsRead(task, res, passed) ==
    LET stub == passed = 0 /\ task.processing_started_at = NoTimestamp /\ res.present
    IN  [processing_started_at |-> IF stub THEN res.processing_started_at
                                   ELSE task.processing_started_at,
         started_at |-> IF stub THEN OrElse(task.started_at, res.started_at)
                        ELSE task.started_at,
         created_at |-> task.created_at]

Timestamp_startedFirst(read) ==
    OrElse(read.started_at, OrElse(read.processing_started_at, read.created_at))

\* timestamp = task_processing_started_at or task_started_at or task_created_at
Timestamp(read) ==
    OrElse(read.processing_started_at, OrElse(read.started_at, read.created_at))

\* execution_time as log_task_completion writes it to the result.
ExecutionTime(read, passed, now) ==
    IF passed = 0 /\ Timestamp(read) # NoTimestamp
    THEN now - Timestamp(read)
    ELSE passed

XtInit ==
    /\ xtNow = 1
    /\ xtTask = NoTimedTask
    /\ xtResult = NoTimedResult

Xt_tick ==
    /\ xtNow < MaxXtNow
    /\ xtNow' = xtNow + 1
    /\ UNCHANGED <<xtTask, xtResult>>
    /\ UNCHANGED frameXt

\* assign_task: queue["tasks"][task_id] = task_entry
Xt_assign_task ==
    /\ xtTask' = TimedTaskEntry(xtNow)
    /\ UNCHANGED <<xtNow, xtResult>>
    /\ UNCHANGED frameXt

\* process_queue claims the task: status in_progress, started_at = now.
Xt_process_queue ==
    /\ xtTask.status = "queued"
    /\ xtTask' = [xtTask EXCEPT !.status = "in_progress", !.started_at = xtNow]
    /\ UNCHANGED <<xtNow, xtResult>>
    /\ UNCHANGED frameXt

\* mark_task_in_progress: processing_started_at = now in the queue, and a
\* stub in the results file if the task has no record there.
Xt_mark_task_in_progress ==
    /\ xtTask.status \in {"queued", "in_progress"}
    /\ xtTask' = [xtTask EXCEPT !.status = "in_progress",
                                !.processing_started_at = xtNow]
    /\ xtResult' = IF xtResult.present THEN xtResult
                   ELSE ResultStub(xtTask.started_at, xtNow)
    /\ UNCHANGED xtNow
    /\ UNCHANGED frameXt

\* log_task_completion: the task leaves the queue and its result is written.
Xt_log_task_completion(passed) ==
    LET read == TimestampsRead(xtTask, xtResult, passed)
    IN  /\ xtTask' = NoTimedTask
        /\ xtResult' = [present |-> TRUE, status |-> "done",
                        execution_time_seconds |-> ExecutionTime(read, passed, xtNow),
                        started_at |-> read.started_at,
                        processing_started_at |-> read.processing_started_at]
        /\ UNCHANGED xtNow
        /\ UNCHANGED frameXt

XtNext ==
    \/ Xt_tick
    \/ Xt_assign_task
    \/ Xt_process_queue
    \/ Xt_mark_task_in_progress
    \/ \E passed \in ExecutionTimeArgs : Xt_log_task_completion(passed)

InitExecTime == PrevIdle /\ XtInit /\ RvIdle /\ RlIdle /\ DpIdle

SpecExecTime == InitExecTime /\ [][XtNext]_vars

StrV(chars) == [t |-> "str", v |-> chars]
IntV(n) == [t |-> "int", v |-> n]
ListV(items) == [t |-> "list", v |-> items]
DictV(fields) == [t |-> "dict", v |-> fields]

DigitChars == <<"0", "1", "2", "3", "4", "5", "6", "7", "8", "9">>

\* part.isdigit()
IsDigits(chars) ==
    /\ chars # <<>>
    /\ \A i \in 1 .. Len(chars) : \E d \in 1 .. 10 : DigitChars[d] = chars[i]

DigitValue(c) == (CHOOSE d \in 1 .. 10 : DigitChars[d] = c) - 1

RECURSIVE IntOf(_)
\* int(chars) of a string of digits.
IntOf(chars) ==
    IF Len(chars) = 1 THEN DigitValue(chars[1])
    ELSE 10 * IntOf(SubSeq(chars, 1, Len(chars) - 1)) + DigitValue(chars[Len(chars)])

RECURSIVE StrOfInt(_)
\* str(n) of an int n >= 0.
StrOfInt(n) ==
    IF n < 10 THEN <<DigitChars[n + 1]>>
    ELSE StrOfInt(n \div 10) \o <<DigitChars[(n % 10) + 1]>>

\* s.count(c)
CountChar(s, c) == Cardinality({i \in 1 .. Len(s) : s[i] = c})

\* s.index(c), from 1; 0 when c is not in s.
IndexOfChar(s, c) ==
    IF \E i \in 1 .. Len(s) : s[i] = c
    THEN CHOOSE i \in 1 .. Len(s) : s[i] = c /\ \A j \in 1 .. i - 1 : s[j] # c
    ELSE 0

RECURSIVE SplitOn(_, _)
\* s.split(c)
SplitOn(s, c) ==
    LET i == IndexOfChar(s, c)
    IN  IF i = 0 THEN <<s>>
        ELSE <<SubSeq(s, 1, i - 1)>> \o SplitOn(SubSeq(s, i + 1, Len(s)), c)

RECURSIVE ReplaceAll(_, _, _)
\* s.replace(old, new), old not empty.
ReplaceAll(s, old, new) ==
    IF Len(s) < Len(old) THEN s
    ELSE IF SubSeq(s, 1, Len(old)) = old
         THEN new \o ReplaceAll(SubSeq(s, Len(old) + 1, Len(s)), old, new)
         ELSE <<s[1]>> \o ReplaceAll(Tail(s), old, new)

RECURSIVE FindAll(_)
\* re.findall(r'\{([^}]+)\}', s): from each "{" to the next "}", with at
\* least one character between them.
FindAll(s) ==
    LET open == IndexOfChar(s, "{")
        rest == SubSeq(s, open + 1, Len(s))
        close == IndexOfChar(rest, "}")
    IN  IF open = 0 THEN <<>>
        ELSE IF close = 0 THEN <<>>
        ELSE IF close = 1 THEN FindAll(rest)
        ELSE <<SubSeq(rest, 1, close - 1)>> \o FindAll(SubSeq(rest, close + 1, Len(rest)))

RECURSIVE JoinWith(_, _)
JoinWith(strings, sep) ==
    IF strings = <<>> THEN <<>>
    ELSE IF Len(strings) = 1 THEN strings[1]
    ELSE strings[1] \o sep \o JoinWith(Tail(strings), sep)

RECURSIVE SeqOfSet(_)
SeqOfSet(S) ==
    IF S = {} THEN <<>>
    ELSE LET x == CHOOSE y \in S : TRUE IN <<x>> \o SeqOfSet(S \ {x})

RECURSIVE ReprOf(_)
\* repr(value): a string in quotes, a list in brackets, a dict in braces.
ReprOf(value) ==
    IF value.t = "str" THEN <<"'">> \o value.v \o <<"'">>
    ELSE IF value.t = "int" THEN StrOfInt(value.v)
    ELSE IF value.t = "list"
    THEN <<"[">> \o JoinWith([i \in 1 .. Len(value.v) |-> ReprOf(value.v[i])], <<",", " ">>)
         \o <<"]">>
    ELSE LET keys == SeqOfSet(DOMAIN value.v)
         IN  <<"{">>
             \o JoinWith([i \in 1 .. Len(keys) |->
                            <<"'">> \o keys[i] \o <<"'", ":", " ">> \o ReprOf(value.v[keys[i]])],
                         <<",", " ">>)
             \o <<"}">>

\* str(value)
StrOf(value) == IF value.t = "str" THEN value.v ELSE ReprOf(value)

\* The outcome of a subscription or of a walk along a path: found, with the
\* value; missed, by a KeyError or a TypeError the function catches; or
\* raised, by an IndexError or a ValueError, which it does not catch.
Found(value) == [st |-> "ok", v |-> value]
Missed == [st |-> "miss", v |-> IntV(0)]
Raised == [st |-> "raise", v |-> IntV(0)]

\* value[key][idx] and value[idx]: the element of a list, the character of
\* a string.
Subscript(value, idx) ==
    IF value.t = "list"
    THEN IF idx < Len(value.v) THEN Found(value.v[idx + 1]) ELSE Raised
    ELSE IF value.t = "str"
    THEN IF idx < Len(value.v) THEN Found(StrV(<<value.v[idx + 1]>>)) ELSE Raised
    ELSE Missed

\* One step of the loop over parts in the string branch.
StringPart(value, part) ==
    LET open == IndexOfChar(part, "[")
        close == IndexOfChar(part, "]")
        key == SubSeq(part, 1, open - 1)
        digits == SubSeq(part, open + 1, close - 1)
    IN  IF open # 0 /\ close # 0
        THEN IF ~IsDigits(digits) THEN Raised
             ELSE IF value.t = "dict"
             THEN IF key \in DOMAIN value.v
                  THEN Subscript(value.v[key], IntOf(digits))
                  ELSE Missed
             ELSE IF value.t = "list" THEN Subscript(value, IntOf(digits))
             ELSE Missed
        ELSE IF value.t = "dict"
        THEN IF part \in DOMAIN value.v THEN Found(value.v[part]) ELSE Missed
        ELSE IF value.t = "list" /\ IsDigits(part) THEN Subscript(value, IntOf(part))
        ELSE Missed

RECURSIVE StringWalk(_, _)
StringWalk(value, parts) ==
    IF parts = <<>> THEN Found(value)
    ELSE LET step == StringPart(value, parts[1])
         IN  IF step.st = "ok" THEN StringWalk(step.v, Tail(parts)) ELSE step

RECURSIVE DictWalk(_, _)
\* The loop over parts in the mapping branch: `break` at a value that is
\* not a dict, KeyError at a missing key; both leave `resolved` False.
DictWalk(value, parts) ==
    IF parts = <<>> THEN Found(value)
    ELSE IF value.t = "dict" /\ parts[1] \in DOMAIN value.v
    THEN DictWalk(value.v[parts[1]], Tail(parts))
    ELSE Missed

\* The string branch for one match, on the string resolved so far.
ResolveMatch(resolved, match, context) ==
    LET placeholder == <<"{">> \o match \o <<"}">>
    IN  IF IndexOfChar(match, ".") # 0
        THEN LET walk == StringWalk(context, SplitOn(match, "."))
             IN  IF walk.st = "ok"
                 THEN Found(StrV(ReplaceAll(resolved, placeholder, StrOf(walk.v))))
                 ELSE IF walk.st = "miss" THEN Found(StrV(resolved))
                 ELSE Raised
        ELSE IF match \in DOMAIN context.v
        THEN Found(StrV(ReplaceAll(resolved, placeholder, StrOf(context.v[match]))))
        ELSE Found(StrV(resolved))

RECURSIVE ResolveMatches(_, _, _)
ResolveMatches(resolved, matches, context) ==
    IF matches = <<>> THEN Found(StrV(resolved))
    ELSE LET one == ResolveMatch(resolved, matches[1], context)
         IN  IF one.st = "ok" THEN ResolveMatches(one.v.v, Tail(matches), context)
             ELSE one

\* resolve_context_values(params, context) for a str.
ResolveString(s, context) == ResolveMatches(s, FindAll(s), context)

\* resolved_value.startswith('{') and resolved_value.endswith('}') and
\* resolved_value.count('{') == 1
LooksLikeFullPlaceholder(s) ==
    /\ s # <<>>
    /\ s[1] = "{"
    /\ s[Len(s)] = "}"
    /\ CountChar(s, "{") = 1

\* What the mapping branch does with the resolved value of one key: keep
\* it, put another value in its place, or leave the key out.
Kept(value) == [keep |-> TRUE, v |-> value]
Dropped == [keep |-> FALSE, v |-> IntV(0)]

MappingEntry(resolved_value, context) ==
    IF resolved_value.t = "str" /\ LooksLikeFullPlaceholder(resolved_value.v)
    THEN LET placeholder == SubSeq(resolved_value.v, 2, Len(resolved_value.v) - 1)
         IN  IF IndexOfChar(placeholder, ".") # 0
             THEN LET walk == DictWalk(context, SplitOn(placeholder, "."))
                  IN  IF walk.st = "ok" THEN Kept(walk.v) ELSE Dropped
             ELSE IF placeholder \notin DOMAIN context.v THEN Dropped
             ELSE Kept(resolved_value)
    ELSE Kept(resolved_value)

RECURSIVE resolve_context_values(_, _)
resolve_context_values(params, context) ==
    IF params.t = "dict"
    THEN LET each == [k \in DOMAIN params.v |-> resolve_context_values(params.v[k], context)]
             entry == [k \in DOMAIN params.v |-> MappingEntry(each[k].v, context)]
             kept == {k \in DOMAIN params.v : entry[k].keep}
         IN  IF \E k \in DOMAIN params.v : each[k].st # "ok" THEN Raised
             ELSE Found(DictV([k \in kept |-> entry[k].v]))
    ELSE IF params.t = "list"
    THEN LET each == [i \in 1 .. Len(params.v) |-> resolve_context_values(params.v[i], context)]
         IN  IF \E i \in 1 .. Len(params.v) : each[i].st # "ok" THEN Raised
             ELSE Found(ListV([i \in 1 .. Len(params.v) |-> each[i].v]))
    ELSE IF params.t = "str" THEN ResolveString(params.v, context)
    ELSE Found(params)

\* ---- the inputs ----

\* The strings of the inputs, character by character.
PlainText == <<"t">>
Ph_n == <<"{", "n", "}">>
Ph_z == <<"{", "z", "}">>
Ph_d_f == <<"{", "d", ".", "f", "}">>
Ph_d_g == <<"{", "d", ".", "g", "}">>
Ph_l_1 == <<"{", "l", ".", "1", "}">>
Ph_l_5 == <<"{", "l", ".", "5", "}">>
Ph_l0 == <<"{", "l", "[", "0", "]", "}">>
Ph_d_l0 == <<"{", "d", ".", "l", "[", "0", "]", "}">>
Partial_n == <<"a", "{", "n", "}">>
Partial_l0 == <<"a", "{", "l", "[", "0", "]", "}", "b">>

\* A mapping with the key k under test and a key j with a plain string.
ParamsWith(value) == DictV((<<"k">> :> value) @@ (<<"j">> :> StrV(PlainText)))

ParamInputs ==
    {ParamsWith(StrV(s)) : s \in {Ph_n, Ph_z, Ph_d_f, Ph_d_g, Ph_l_1, Ph_l_5, Ph_l0, Ph_d_l0,
                                   Partial_n, PlainText}}
    \cup {ParamsWith(IntV(3)), StrV(Partial_l0), StrV(Ph_l0), StrV(Partial_n),
          ListV(<<StrV(Ph_n), StrV(Ph_z)>>)}

NoField == [t |-> "absent", v |-> 0]

\* The values the context holds under n, l and d; NoField: the key is not
\* in the context.
Context_n == {NoField, StrV(<<"v">>), IntV(7), DictV(<<"s">> :> StrV(<<"o">>))}
Context_l == {NoField, ListV(<<StrV(<<"a">>), StrV(<<"b">>)>>)}
Context_d == {NoField, DictV(<<"f">> :> StrV(<<"w">>)),
              DictV((<<"f">> :> IntV(7)) @@ (<<"l">> :> ListV(<<StrV(<<"c">>)>>)))}

ContextOf(n, l, d) ==
    LET all == (<<"n">> :> n) @@ (<<"l">> :> l) @@ (<<"d">> :> d)
    IN  DictV([k \in {key \in DOMAIN all : all[key] # NoField} |-> all[k]])

ContextInputs == {ContextOf(n, l, d) : n \in Context_n, l \in Context_l, d \in Context_d}

NotCalled == [st |-> "none", v |-> IntV(0)]

RvInit ==
    /\ rvParams \in ParamInputs
    /\ rvContext \in ContextInputs
    /\ rvResult = NotCalled

\* One call of resolve_context_values(params, context).
Rv_call ==
    /\ rvResult = NotCalled
    /\ rvResult' = resolve_context_values(rvParams, rvContext)
    /\ UNCHANGED <<rvParams, rvContext>>
    /\ UNCHANGED frameRv

RvNext == Rv_call

InitResolve == PrevIdle /\ XtIdle /\ RvInit /\ RlIdle /\ DpIdle

SpecResolve == InitResolve /\ [][RvNext]_vars

\* ---- what the claims say of a placeholder ----

\* A string that is one placeholder {X} and nothing else.
FullPlaceholder(value) ==
    /\ value.t = "str"
    /\ Len(value.v) > 2
    /\ value.v[1] = "{"
    /\ value.v[Len(value.v)] = "}"
    /\ \A i \in 2 .. Len(value.v) - 1 : value.v[i] \notin {"{", "}"}

RECURSIVE PathValue(_, _)
\* The value a dotted path leads to: a segment names a key of a mapping or
\* an index of a sequence.
PathValue(value, segments) ==
    IF segments = <<>> THEN Found(value)
    ELSE IF value.t = "dict" /\ segments[1] \in DOMAIN value.v
    THEN PathValue(value.v[segments[1]], Tail(segments))
    ELSE IF value.t = "list" /\ IsDigits(segments[1]) /\ IntOf(segments[1]) < Len(value.v)
    THEN PathValue(value.v[IntOf(segments[1]) + 1], Tail(segments))
    ELSE Missed

\* X is a name or a dotted path of names and indices, without brackets.
IsPath(X) == \A i \in 1 .. Len(X) : X[i] \notin {"[", "]"}

\* X is name[digits], without a dot.
IsIndexed(X) ==
    /\ IndexOfChar(X, ".") = 0
    /\ IndexOfChar(X, "[") > 1
    /\ X[Len(X)] = "]"
    /\ IsDigits(SubSeq(X, IndexOfChar(X, "[") + 1, Len(X) - 1))

\* The element name[i] stands for, if the context has it.
IndexedValue(X, context) ==
    LET name == SubSeq(X, 1, IndexOfChar(X, "[") - 1)
        i == IntOf(SubSeq(X, IndexOfChar(X, "[") + 1, Len(X) - 1))
    IN  IF name \in DOMAIN context.v /\ context.v[name].t = "list"
           /\ i < Len(context.v[name].v)
        THEN Found(context.v[name].v[i + 1])
        ELSE Missed

\* C32: for a mapping, a key whose value is a single full placeholder {X},
\* X a name or a dotted path, is in the output if and only if X resolves
\* against the context, and every other key is kept.
C32_KeyPresentIffPlaceholderResolves ==
    (rvResult # NotCalled /\ rvParams.t = "dict") =>
        /\ rvResult.st = "ok"
        /\ \A k \in DOMAIN rvParams.v :
             LET value == rvParams.v[k]
                 X == SubSeq(value.v, 2, Len(value.v) - 1)
             IN  IF FullPlaceholder(value)
                 THEN IsPath(X) =>
                        (k \in DOMAIN rvResult.v.v
                           <=> PathValue(rvContext, SplitOn(X, ".")).st = "ok")
                 ELSE k \in DOMAIN rvResult.v.v

\* C33: a placeholder {name[i]} without a dot resolves to element i of the
\* sequence the context holds under name, whenever that element exists:
\* inside a string it is replaced by str(element), and as the whole value
\* of a mapping key it keeps the key, with the element.
C33_IndexedPlaceholderResolves ==
    rvResult # NotCalled =>
        /\ rvParams.t = "str" =>
             \A i \in 1 .. Len(FindAll(rvParams.v)) :
                LET X == FindAll(rvParams.v)[i]
                IN  (IsIndexed(X) /\ IndexedValue(X, rvContext).st = "ok") =>
                       /\ rvResult.st = "ok"
                       /\ rvResult.v = StrV(ReplaceAll(rvParams.v, <<"{">> \o X \o <<"}">>,
                                                       StrOf(IndexedValue(X, rvContext).v)))
        /\ rvParams.t = "dict" =>
             \A k \in DOMAIN rvParams.v :
                LET value == rvParams.v[k]
                    X == SubSeq(value.v, 2, Len(value.v) - 1)
                IN  (FullPlaceholder(value) /\ IsIndexed(X)
                     /\ IndexedValue(X, rvContext).st = "ok") =>
                       /\ rvResult.st = "ok"
                       /\ k \in DOMAIN rvResult.v.v
                       /\ rvResult.v.v[k] \in {IndexedValue(X, rvContext).v,
                                               StrV(StrOf(IndexedValue(X, rvContext).v))}

(***************************************************************************)
(* The commands on the rules file, data/automation_rules.json, run one     *)
(* after the other.  A rule body is a function from the names of its       *)
(* fields to strings: tool and action stand for rule['action']['tool']     *)
(* and ['action'], trigger_type and file for rule['trigger']['type'] and   *)
(* ['file'].  The file holds what json.dump writes of the bodies.          *)
(***************************************************************************)

RuleKeyArgs == {"", "r1", "r2"}

RuleFieldOrder == <<"tool", "action", "trigger_type", "file">>

\* load_tool_actions(): the tools of the registry and their actions.
RegisteredTools == [t1 |-> {"a1"}]

RuleBody(tool, action, trigger_type, file) ==
    [f \in {"tool", "action", "trigger_type", "file"} |->
        CASE f = "tool" -> tool
          [] f = "action" -> action
          [] f = "trigger_type" -> trigger_type
          [] OTHER -> file]

\* {}: a rule without any field.
EmptyBody == [f \in {} |-> ""]

\* A rule on an interval, which needs no file: no field `file`.
IntervalBody == [f \in {"tool", "action", "trigger_type"} |->
                    RuleBody("t1", "a1", "interval", "")[f]]

RuleBodies ==
    {RuleBody("t1", "a1", "entry_added", "f.json"), IntervalBody,
     RuleBody("tx", "a1", "entry_added", "f.json"),
     RuleBody("t1", "a1", "entry_added", ""), EmptyBody}

\* params.get('rule'): a dict, or something that is not a dict.
RuleArgs == {[is_dict |-> TRUE, body |-> b] : b \in RuleBodies}
            \cup {[is_dict |-> FALSE, body |-> EmptyBody]}

\* rule.get(field): "" stands for None.
FieldOf(body, field) == IF field \in DOMAIN body THEN body[field] ELSE ""

\* validate_rule({'rule': rule}) returns status error.
ValidationFails(body) ==
    \/ body = EmptyBody
    \/ FieldOf(body, "tool") = ""
    \/ FieldOf(body, "tool") \notin DOMAIN RegisteredTools
    \/ FieldOf(body, "action") = ""
    \/ /\ RegisteredTools[FieldOf(body, "tool")] # {}
       /\ FieldOf(body, "action") \notin RegisteredTools[FieldOf(body, "tool")]
    \/ FieldOf(body, "trigger_type") = ""
    \/ /\ FieldOf(body, "trigger_type") \in {"entry_added", "entry_updated"}
       /\ FieldOf(body, "file") = ""

\* json.dump of a rule body: its fields with their values, one after the
\* other.
DumpsRule_noFile(body) ==
    SelectSeq([i \in 1 .. Len(RuleFieldOrder) |->
                  <<RuleFieldOrder[i], FieldOf(body, RuleFieldOrder[i])>>],
              LAMBDA pair : pair[1] \in DOMAIN body /\ pair[1] # "file")

DumpsRule(body) ==
    SelectSeq([i \in 1 .. Len(RuleFieldOrder) |->
                  <<RuleFieldOrder[i], FieldOf(body, RuleFieldOrder[i])>>],
              LAMBDA pair : pair[1] \in DOMAIN body)

\* json.load of the text of a rule body.
LoadsRule(text) ==
    [f \in {text[i][1] : i \in 1 .. Len(text)} |->
        (CHOOSE pair \in {text[i] : i \in 1 .. Len(text)} : pair[1] = f)[2]]

NoRulesFile == [exists |-> FALSE, rules |-> <<>>]

\* read_json(RULES_FILE), and `if 'rules' not in data: data['rules'] = {}`:
\* the mapping from rule keys to rule bodies.
ReadRules(file) ==
    IF file.exists THEN [k \in DOMAIN file.rules |-> LoadsRule(file.rules[k])]
    ELSE [k \in {} |-> EmptyBody]

\* write_json(RULES_FILE, data)
WrittenRules(rules) ==
    [exists |-> TRUE, rules |-> [k \in DOMAIN rules |-> DumpsRule(rules[k])]]

\* What a command returns: its status and, for get_rule, the rule.
RuleReturn(status, body) == [status |-> status, rule |-> body]

\* add_rule(params): what it returns and the rules file it leaves.
AddRule(file, rule_key, rule, skip_validation) ==
    LET rules == ReadRules(file)
    IN  IF rule_key = "" \/ ~rule.is_dict
        THEN [ret |-> RuleReturn("error", EmptyBody), file |-> file]
        ELSE IF ~skip_validation /\ ValidationFails(rule.body)
        THEN [ret |-> RuleReturn("error", EmptyBody), file |-> file]
        ELSE IF rule_key \in DOMAIN rules
        THEN [ret |-> RuleReturn("error", EmptyBody), file |-> file]
        ELSE [ret |-> RuleReturn("success", EmptyBody),
              file |-> WrittenRules([k \in DOMAIN rules \cup {rule_key} |->
                                        IF k = rule_key THEN rule.body ELSE rules[k]])]

\* update_rule(params)
UpdateRule(file, rule_key, rule) ==
    LET rules == ReadRules(file)
    IN  IF rule_key = "" \/ ~rule.is_dict
        THEN [ret |-> RuleReturn("error", EmptyBody), file |-> file]
        ELSE IF ValidationFails(rule.body)
        THEN [ret |-> RuleReturn("error", EmptyBody), file |-> file]
        ELSE IF rule_key \notin DOMAIN rules
        THEN [ret |-> RuleReturn("error", EmptyBody), file |-> file]
        ELSE [ret |-> RuleReturn("success", EmptyBody),
              file |-> WrittenRules([rules EXCEPT ![rule_key] = rule.body])]

\* delete_rule(params)
DeleteRule(file, rule_key) ==
    LET rules == ReadRules(file)
    IN  IF rule_key = "" \/ rule_key \notin DOMAIN rules
        THEN [ret |-> RuleReturn("error", EmptyBody), file |-> file]
        ELSE [ret |-> RuleReturn("success", EmptyBody),
              file |-> WrittenRules([k \in DOMAIN rules \ {rule_key} |-> rules[k]])]

\* get_rule(params)
GetRule(file, rule_key) ==
    LET rules == ReadRules(file)
    IN  IF rule_key = "" \/ rule_key \notin DOMAIN rules
        THEN RuleReturn("error", EmptyBody)
        ELSE RuleReturn("success", rules[rule_key])

NoRuleCall == [op |-> "none", rule_key |-> "", rule |-> [is_dict |-> FALSE, body |-> EmptyBody],
               ret |-> RuleReturn("none", EmptyBody), prev |-> "none"]

RulesInit ==
    /\ rlFile = NoRulesFile
    /\ rlLast = NoRuleCall

Rl_add_rule(rule_key, rule, skip_validation) ==
    LET out == AddRule(rlFile, rule_key, rule, skip_validation)
    IN  /\ rlFile' = out.file
        /\ rlLast' = [op |-> "add_rule", rule_key |-> rule_key, rule |-> rule,
                      ret |-> out.ret, prev |-> rlLast.op]
        /\ UNCHANGED frameRl

Rl_update_rule(rule_key, rule) ==
    LET out == UpdateRule(rlFile, rule_key, rule)
    IN  /\ rlFile' = out.file
        /\ rlLast' = [op |-> "update_rule", rule_key |-> rule_key, rule |-> rule,
                      ret |-> out.ret, prev |-> rlLast.op]
        /\ UNCHANGED frameRl

Rl_delete_rule(rule_key) ==
    LET out == DeleteRule(rlFile, rule_key)
    IN  /\ rlFile' = out.file
        /\ rlLast' = [op |-> "delete_rule", rule_key |-> rule_key, rule |-> NoRuleCall.rule,
                      ret |-> out.ret, prev |-> rlLast.op]
        /\ UNCHANGED frameRl

\* get_rule(params), called with the rule_key of the call before it.
Rl_get_rule ==
    /\ rlLast.op # "none"
    /\ rlLast' = [op |-> "get_rule", rule_key |-> rlLast.rule_key, rule |-> rlLast.rule,
                  ret |-> GetRule(rlFile, rlLast.rule_key), prev |-> rlLast.op]
    /\ UNCHANGED rlFile
    /\ UNCHANGED frameRl

RulesNext ==
    \/ \E rule_key \in RuleKeyArgs, rule \in RuleArgs, skip \in BOOLEAN :
         Rl_add_rule(rule_key, rule, skip)
    \/ \E rule_key \in RuleKeyArgs, rule \in RuleArgs : Rl_update_rule(rule_key, rule)
    \/ \E rule_key \in RuleKeyArgs : Rl_delete_rule(rule_key)
    \/ Rl_get_rule

InitRules == PrevIdle /\ XtIdle /\ RvIdle /\ RulesInit /\ DpIdle

SpecRules == InitRules /\ [][RulesNext]_vars

\* C34: after an add_rule that succeeded, a following get_rule(rule_key)
\* returns exactly the rule body that was added; and an add_rule that
\* returns error leaves the rules file unchanged.
C34_AddThenGetReturnsRule ==
    [][/\ (rlLast.op = "add_rule" /\ rlLast.ret.status = "success" /\ Rl_get_rule) =>
              rlLast'.ret = RuleReturn("success", rlLast.rule.body)
       /\ (rlLast'.op = "add_rule" /\ rlLast'.ret.status = "error") =>
              rlFile' = rlFile]_vars

\* C34 witness: the rule without a file field was added under r2 to a file
\* that holds r1, and the get_rule after it has returned that body.
C34_Witness ==
    /\ rlLast.op = "get_rule"
    /\ rlLast.prev = "add_rule"
    /\ rlLast.rule_key = "r2"
    /\ rlLast.ret = RuleReturn("success", IntervalBody)
    /\ rlFile.exists
    /\ DOMAIN rlFile.rules = {"r1", "r2"}

(***************************************************************************)
(* The engine that keeps polling: engine_loop of SpecEngine without a      *)
(* restart of the process and without other files, every step of the loop  *)
(* taken in the end.  retry_failed and retry_failed_entries are run from   *)
(* other processes, whenever they like.                                    *)
(***************************************************************************)

EngLiveNext ==
    \/ Tick
    \/ Poll_start
    \/ Added_step
    \/ PQE_run_action
    \/ PQE_outcome
    \/ Updated_step
    \/ Poll_end
    \/ retry_failed
    \/ retry_failed_entries

SpecEngineLive ==
    /\ InitEngine
    /\ [][EngLiveNext]_vars
    /\ WF_vars(Poll_start \/ Added_step \/ PQE_run_action \/ PQE_outcome
               \/ Updated_step \/ Poll_end)

\* C35: an entry that retry_failed_entries or retry_failed has set back to
\* queued while the engine is running is in the end marked processing again
\* by that engine (the entry_added test being `True`, the rule enabled and
\* the loop polling).
C35_RetriedEntryIsProcessedAgain ==
    \A k \in Keys :
        (/\ event_types.entry_added = "any"
         /\ entries[k].status = "queued"
         /\ rfeMoves[k] + rfMoves[k] > 0)
        ~> (entries[k].status = "processing")

(***************************************************************************)
(* Which rules run: one poll iteration of engine_loop over a rules file    *)
(* with two entry_added rules and one entry_updated rule on the same entry *)
(* file, a time rule and an interval rule, and dispatch_event over an      *)
(* event rule.  The entry file holds one entry.  An iteration is one step; *)
(* whether the event test holds, the clock matches the time rule, the      *)
(* interval is due and the entry differs from the last snapshot are inputs *)
(* of the step, as is the result of the tool.                              *)
(***************************************************************************)

\* The rules in the order of rules_data.items(), and their trigger types.
DpRuleOrder == <<"a1", "a2", "u1", "t1", "i1", "e1">>
DpRules == {DpRuleOrder[i] : i \in 1 .. Len(DpRuleOrder)}

DpTriggerType ==
    [a1 |-> "entry_added", a2 |-> "entry_added", u1 |-> "entry_updated",
     t1 |-> "time", i1 |-> "interval", e1 |-> "event"]

\* trigger.get('event_key') of the event rule, and the keys dispatched.
DpEventKey == "deploy"
DpEventKeyArgs == {"deploy", "other"}

\* session_key = f"{file_path}:{key}:added" and
\* session_key = f"{file_path}:{key}:{rule_key}:{entry_status}"
DpAddedKey == <<"added", "", "">>
DpUpdatedKey(rule_key, entry_status) == <<"updated", rule_key, entry_status>>

\* The status process_queue_entry_with_lock leaves after run_action.
DpOutcome(result) ==
    CASE result = "timeout_failed" -> "timeout_failed"
      [] result = "error" -> "failed"
      [] OTHER -> "processed"

\* The entry_added loop body for one rule: the status filter on the entry
\* as read at the top of the iteration, the session key, the event test,
\* then process_queue_entry_with_lock, which reads the status again.
DpAddedRule(at, rule_key, loaded, snapshot, test, result) ==
    IF rule_key \notin loaded \/ snapshot = "absent" THEN at
    ELSE IF snapshot \in {"processed", "processing", "failed"} THEN at
    ELSE IF DpAddedKey \in at.session THEN at
    ELSE IF ~test THEN at
    ELSE IF at.entry \in SkipStatuses
    THEN [at EXCEPT !.session = @ \cup {DpAddedKey}]
    ELSE [entry |-> DpOutcome(result), session |-> at.session \cup {DpAddedKey},
          ran |-> at.ran \cup {rule_key}]

\* The entry_updated loop body for one rule.
DpUpdatedRule(at, rule_key, loaded, snapshot, changed) ==
    IF rule_key \notin loaded \/ snapshot = "absent" THEN at
    ELSE IF snapshot \in {"processing", "failed"} THEN at
    ELSE IF ~changed THEN at
    ELSE IF DpUpdatedKey(rule_key, snapshot) \in at.session THEN at
    ELSE [at EXCEPT !.session = @ \cup {DpUpdatedKey(rule_key, snapshot)},
                    !.ran = @ \cup {rule_key}]

\* The loop over the time and interval rules.
DpTimedRule(at, rule_key, loaded, fires) ==
    IF rule_key \in loaded /\ fires THEN [at EXCEPT !.ran = @ \cup {rule_key}] ELSE at

\* The rules a poll iteration works with: `if not rule.get('enabled', True):
\* continue`.
DpLoaded(enabled) == {r \in DpRules : enabled[r]}

\* One iteration of the while loop of engine_loop.
DpPoll(enabled, entry, session, test, changed, at_time, due, result) ==
    LET loaded == DpLoaded(enabled)
        at0 == [entry |-> entry, session |-> session, ran |-> {}]
        at1 == DpAddedRule(at0, "a1", loaded, entry, test, result)
        at2 == DpAddedRule(at1, "a2", loaded, entry, test, result)
        at3 == DpUpdatedRule(at2, "u1", loaded, entry, changed)
        at4 == DpTimedRule(at3, "t1", loaded, at_time)
    IN  DpTimedRule(at4, "i1", loaded, due)

\* dispatch_event(event_key, payload): the rules whose action it runs.
DpDispatched(event_key) ==
    {r \in DpRules : DpTriggerType[r] = "event" /\ DpEventKey = event_key}

\* The rules toggle_rule_enabled is called for: one where engine_loop groups
\* the file rules, one in its loop over the time and interval rules, and
\* the event rule.
DpToggled == {"a2", "t1", "e1"}

NoDpRun == [op |-> "none", ran |-> {}]

DispatchInit ==
    /\ dpEnabled = [r \in DpRules |-> TRUE]
    /\ dpEntry = "absent"
    /\ dpSession = {}
    /\ dpRun = NoDpRun

\* A producer writes the entry, queued, or removes the processed entry.
Dp_producer ==
    /\ dpEntry \in {"absent", "processed"}
    /\ dpEntry' = IF dpEntry = "absent" THEN "queued" ELSE "absent"
    /\ UNCHANGED <<dpEnabled, dpSession, dpRun>>
    /\ UNCHANGED frameDp

\* toggle_rule_enabled({"rule_key": rule_key})
Dp_toggle_rule_enabled(rule_key) ==
    /\ dpEnabled' = [dpEnabled EXCEPT ![rule_key] = ~@]
    /\ UNCHANGED <<dpEntry, dpSession, dpRun>>
    /\ UNCHANGED frameDp

Dp_poll(test, changed, at_time, due, result) ==
    LET out == DpPoll(dpEnabled, dpEntry, dpSession, test, changed, at_time, due, result)
    IN  /\ dpEntry' = out.entry
        /\ dpSession' = out.session
        /\ dpRun' = [op |-> "poll", ran |-> out.ran]
        /\ UNCHANGED dpEnabled
        /\ UNCHANGED frameDp

Dp_dispatch_event(event_key) ==
    /\ dpRun' = [op |-> "dispatch_event", ran |-> DpDispatched(event_key)]
    /\ UNCHANGED <<dpEnabled, dpEntry, dpSession>>
    /\ UNCHANGED frameDp

\* The engine process is started again: processed_this_session = set().
Dp_restart ==
    /\ dpSession # {}
    /\ dpSession' = {}
    /\ UNCHANGED <<dpEnabled, dpEntry, dpRun>>
    /\ UNCHANGED frameDp

DispatchNext ==
    \/ Dp_producer
    \/ \E rule_key \in DpToggled : Dp_toggle_rule_enabled(rule_key)
    \/ \E test, changed, at_time, due \in BOOLEAN,
          result \in {"success", "error", "timeout_failed"} :
         Dp_poll(test, changed, at_time, due, result)
    \/ \E event_key \in DpEventKeyArgs : Dp_dispatch_event(event_key)
    \/ Dp_restart

InitDispatch == PrevIdle /\ XtIdle /\ RvIdle /\ RlIdle /\ DispatchInit

SpecDispatch == InitDispatch /\ [][DispatchNext]_vars

\* The inputs of a poll iteration.
DpPollInputs ==
    [test : BOOLEAN, changed : BOOLEAN, at_time : BOOLEAN, due : BOOLEAN,
     result : {"success", "error", "timeout_failed"}]

\* C36: when two enabled entry_added rules target the same file and a new
\* queued entry satisfies the event predicate and each rule's condition,
\* every one of those rules has its action executed for that entry.
C36_EveryAddedRuleRuns ==
    [][\A in \in DpPollInputs :
          \/ ~(/\ dpEnabled["a1"] /\ dpEnabled["a2"]
               /\ dpEntry = "queued"
               /\ DpAddedKey \notin dpSession
               /\ in.test)
          \/ {"a1", "a2"} \subseteq dpRun'.ran
          \/ ~Dp_poll(in.test, in.changed, in.at_time, in.due, in.result)]_vars

\* C38: a rule whose enabled field is false never has its action executed,
\* not by a poll iteration of engine_loop and not by dispatch_event.
C38_DisabledRuleNeverRuns ==
    [][/\ \A in \in DpPollInputs :
            \/ \A r \in dpRun'.ran : dpEnabled[r]
            \/ ~Dp_poll(in.test, in.changed, in.at_time, in.due, in.result)
       /\ \A event_key \in DpEventKeyArgs :
            \/ \A r \in dpRun'.ran : dpEnabled[r]
            \/ ~Dp_dispatch_event(event_key)]_vars

(***************************************************************************)
(* Parallel workers and repeated assignment                                *)
(***************************************************************************)

\* agent_tasks[aid] of execute_queue in parallel mode: the queued tasks of
\* the bucket aid.
agent_tasks(q, aid) ==
    {t \in DOMAIN q : q[t].status = "queued" /\ Bucket(q[t].agent_id) = aid}

\* agent_ids of execute_queue: the buckets a worker is spawned for.
agent_ids(q) ==
    LimitAgents({Bucket(q[t].agent_id) : t \in {u \in DOMAIN q : q[u].status = "queued"}})

\* C37: in parallel mode every queued task that execute_queue counts in the
\* bucket of a spawned worker is returned by that worker's
\* process_queue(agent_id) call, the tasks without an agent_id field, which
\* are counted under agent_1, included.
C37_BucketedTasksAreReturned ==
    [][\A aid \in ClaimArgs \ {"none"} :
          \/ aid \notin agent_ids(queue)
          \/ agent_tasks(queue, aid) \subseteq pending_tasks'
          \/ ~process_queue_call(aid)]_vars

\* C39: assign_task with a task_id that is in the queue already leaves the
\* task as it is: an in_progress or cancelled task is not set back to queued.
C39_AssignKeepsExistingTask ==
    [][\A arg \in AssignTaskArgs :
          \/ ~InQueue(queue, arg[1])
          \/ queue'[arg[1]] = queue[arg[1]]
          \/ ~assign_task_call(arg[1], arg[2])]_vars

(***************************************************************************)
(* The engine loop as a process that keeps running: what engine_loop does  *)
(* is done eventually, and an engine process that has ended is started     *)
(* again.  The other processes (the writer of the entry file, the holder   *)
(* of its lock) take their steps or not.                                   *)
(***************************************************************************)

\* main() with action run_engine: engine_loop() is started in a new process
\* after the last one ended, by an exception or between two iterations.  The
\* entry file is as the last process left it.
Loop_run_engine ==
    /\ lpPc = "crashed" \/ (lpPc = "sleep" /\ lpPolls = MaxPolls)
    /\ lpPc' = "sleep"
    /\ lpPolls' = 0
    /\ UNCHANGED <<lpFileOk, lpLockFree, lpStatus, lpResult, lpFaults>>
    /\ UNCHANGED frameLoop

\* The steps of the engine.
LoopEngineSteps ==
    \/ Loop_top
    \/ Loop_read_file
    \/ \E test \in PredicateOutcomes : Loop_added_mark(test)
    \/ \E result \in ActionResults : Loop_added_action(result)
    \/ Loop_added_outcome
    \/ \E test \in PredicateOutcomes, result \in ActionResults : Loop_updated(test, result)
    \/ \E result \in ActionResults : Loop_rules(result)
    \/ Loop_run_engine

LoopLiveNext ==
    \/ Loop_file_writer
    \/ Loop_lock_holder
    \/ LoopEngineSteps

SpecLoopLive == InitLoop /\ [][LoopLiveNext]_vars /\ WF_vars(LoopEngineSteps)

\* C40: an entry that process_queue_entry_with_lock marked processing leaves
\* the processing status eventually, on every path: action errors, exceptions
\* and timeouts of the file lock while the outcome is written included.
C40_ProcessingIsLeft ==
    (lpStatus = "processing") ~> (lpStatus # "processing")

====
